---- MODULE Spec2Model ----
(***************************************************************************)
(* Model of the interactive cluster-graph visualization engine             *)
(* (clusters_visualizer.js): graph builder, force layout with pinning,     *)
(* viewport, picker, selection / drag controller and toolbar dispatcher.   *)
(*                                                                         *)
(* Units.  World coordinates and radii are integers in tenths of a world   *)
(* unit (radius 20 is 200).  Scores and thresholds are hundredths (0.6 is  *)
(* 60).  The zoom scale k is in thousandths (1.0 is 1000).  Screen         *)
(* coordinates are in 1/10000 pixel, so that applying a transform to a     *)
(* world point is exact: screen = world * k + translate.  The simulation   *)
(* energy alpha is in tenths (1.0 is 10).                                  *)
(*                                                                         *)
(* Two revisions of clusters_visualizer.js are in the repository; the      *)
(* variable variant tells them apart where they differ:                    *)
(*   "A"  src/clusters_visualizer.js                                       *)
(*   "B"  src/unnamed/part_004, lines 659-1623 (toolbar dispatcher)        *)
(***************************************************************************)
EXTENDS Integers, Sequences, FiniteSets, TLC

VARIABLES
  variant,             \* which revision of clusters_visualizer.js runs
  cluster_group,       \* render() found a cluster group in cluster_groups.items
  max_iter,            \* opts.max_alpha_iterations || 100
  iterations,          \* i: ticks the pre-run loop of render() has made
  clusters,            \* snapshot.clusters: sequence of [key, centers]
  members,             \* snapshot.members: sequence of [key, clusters]
  settingsThreshold,   \* cluster_group.settings.threshold (NoThreshold = unset)
  sliderValue,         \* slider.value, hundredths
  debounce,            \* the slider's debounce timer is pending
  nodes,               \* the node list, in insertion order
  node_map,            \* node_map: id -> index into nodes
  links,               \* the link list: sequence of [source, target, score]
  pos,                 \* node index -> <<x, y>>
  fx,                  \* node index -> <<fx, fy>>, or Null when not fixed
  alpha,               \* simulation.alpha()
  alphaTarget,         \* simulation.alphaTarget()
  running,             \* the simulation's timer is active
  transform,           \* [x, y, k]: the viewport transform
  canvas,              \* [w, h]: canvas size in pixels
  framed,              \* the deferred first-frame callback has run
  pinned,              \* the pin-all flag
  selectedNodes,       \* set of node indices
  toolbar,             \* set of toolbar buttons currently shown
  hoveredNode,         \* node index, or 0
  isSelecting,         \* box-select in progress
  selectionStart,      \* world point, or Null
  selectionEnd,        \* world point, or Null
  isDragging,          \* drag in progress (the handler's flag)
  dragSubject,         \* d3-drag's gesture subject: node index, or 0
  dragStartPos,        \* world point of the pointer at drag start, or Null
  nodeStartPositions,  \* moved node index -> its position at drag start
  gesture,             \* what the pressed pointer is doing: none/box/drag/pan
  pointer,             \* where the mouse is, in screen coordinates
  downAt,              \* where the button went down, in screen coordinates
  moved,               \* d3's mousemoving: the press moved past clickDistance
  lastOp,              \* the handler that ran last
  rendered,            \* the last handler ended with ticked(): a frame was drawn
  hist,                \* what the last handler was given (history of its inputs)
  containerSize,       \* [w, h]: container_el.getBoundingClientRect()
  container,           \* the view container's children, in document order
  rendering,           \* number of render_view() calls awaiting the component
  latestCall,          \* the most recently started render_view() call: "pending",
                       \* "shown" (its fragment is in the container) or "replaced"
  tasks                \* toolbar handlers awaiting a call, oldest first

vars == << variant, cluster_group, max_iter, iterations, clusters, members, settingsThreshold, sliderValue,
           debounce, nodes,
           node_map, links, pos, fx, alpha, alphaTarget, running, transform,
           canvas, framed, pinned, selectedNodes, toolbar, hoveredNode, isSelecting,
           selectionStart, selectionEnd, isDragging, dragSubject, dragStartPos,
           nodeStartPositions, gesture, pointer, downAt, moved, lastOp, rendered,
           hist, containerSize, container, rendering, latestCall, tasks >>

snapshotVars == << variant, cluster_group, clusters, members, settingsThreshold,
                  max_iter, iterations >>
graphVars == << nodes, node_map >>
boxVars == << isSelecting, selectionStart, selectionEnd >>
dragVars == << isDragging, dragSubject, dragStartPos, nodeStartPositions >>
simVars == << alpha, alphaTarget, running >>
sliderVars == << sliderValue, debounce >>
pointerVars == << gesture, pointer, downAt, moved >>
viewVars == << canvas, framed >>
hostVars == << containerSize, container, rendering, latestCall, tasks >>

----------------------------------------------------------------------------
(* Values *)

Null == << >>
NoThreshold == -1
Min(a, b) == IF a < b THEN a ELSE b
Max(a, b) == IF a > b THEN a ELSE b
Add(p, q) == << p[1] + q[1], p[2] + q[2] >>
Sub(p, q) == << p[1] - q[1], p[2] - q[2] >>
Put(f, k, v) == [ x \in (DOMAIN f) \cup {k} |-> IF x = k THEN v ELSE f[x] ]

\* JavaScript a || b on a number that may be undefined: 0 and undefined are falsy.
JsOr(a, b) == IF a = NoThreshold \/ a = 0 THEN b ELSE a

----------------------------------------------------------------------------
(* Graph builder: render(), node and link construction *)

BuildDefaultThreshold == 60
SliderDefaultValue == 40
CenterRadius == 40
MemberRadius == 70
BaseRadius == 200
GrowthFactor == 30
MaxRadius == 700

clusterRadius(v, childCount) ==
  IF v = "A" THEN BaseRadius
  ELSE Min(BaseRadius + childCount * GrowthFactor, MaxRadius)

\* dist = radius * 0.7
ringDist(radius) == (radius * 7) \div 10

\* member.item?.key || 'unknown-member'
memberKey(member) == IF member.key = "" THEN "unknown-member" ELSE member.key

clusterNode(v, cluster) ==
  [ id |-> cluster.key, type |-> "cluster",
    radius |-> clusterRadius(v, Len(cluster.centers)),
    parent |-> 0, offsetAngle |-> << 0, 1 >>, offsetDist |-> 0,
    cluster |-> cluster.key, hasItem |-> FALSE ]

\* offsetAngle is (i / childCount) of a full turn, kept as the pair <<i, childCount>>
centerNode(v, cluster, parentIdx, i) ==
  [ id |-> cluster.centers[i], type |-> "center", radius |-> CenterRadius,
    parent |-> parentIdx, offsetAngle |-> << i - 1, Len(cluster.centers) >>,
    offsetDist |-> ringDist(clusterRadius(v, Len(cluster.centers))),
    cluster |-> cluster.key, hasItem |-> (v = "B") ]

memberNode(member_key) ==
  [ id |-> member_key, type |-> "member", radius |-> MemberRadius,
    parent |-> 0, offsetAngle |-> << 0, 1 >>, offsetDist |-> 0,
    cluster |-> "", hasItem |-> TRUE ]

RECURSIVE centerNodes(_, _, _, _)
centerNodes(v, cluster, parentIdx, i) ==
  IF i > Len(cluster.centers) THEN << >>
  ELSE << centerNode(v, cluster, parentIdx, i) >>
         \o centerNodes(v, cluster, parentIdx, i + 1)

\* clusters.forEach: one cluster node, then its center nodes; only the cluster
\* node is entered in node_map.
RECURSIVE renderClusters(_, _, _)
renderClusters(v, cls, st) ==
  IF cls = << >> THEN st
  ELSE LET cluster == Head(cls)
           idx == Len(st.nodes) + 1
       IN renderClusters(v, Tail(cls),
            [ st EXCEPT !.nodes = Append(st.nodes, clusterNode(v, cluster))
                                    \o centerNodes(v, cluster, idx, 1),
                        !.node_map = Put(st.node_map, cluster.key, idx) ])

\* The test that guards the creation of a member node.
memberNodeWanted(v, cls, st, member_key) ==
  IF v = "A"
  THEN /\ member_key \notin DOMAIN st.node_map
       /\ \E i \in DOMAIN cls : cls[i].key # member_key
  ELSE /\ member_key \notin DOMAIN st.node_map
       /\ ~ \E i \in DOMAIN st.nodes :
              st.nodes[i].id = member_key /\ st.nodes[i].type = "center"

\* The comparison turned round: a link is kept when its score is at most the
\* threshold.
linkWantedReversed(score, threshold, map, cl_id) ==
  score <= threshold /\ cl_id \in DOMAIN map

\* The lookup in node_map left out: score >= threshold.
linkWantedUnchecked(score, threshold, map, cl_id) == score >= threshold

\* score >= threshold && node_map[cl_id]
linkWanted(score, threshold, map, cl_id) ==
  score >= threshold /\ cl_id \in DOMAIN map

RECURSIVE memberLinks(_, _, _, _)
memberLinks(entries, member_key, threshold, map) ==
  IF entries = << >> THEN << >>
  ELSE LET e == Head(entries)
           rest == memberLinks(Tail(entries), member_key, threshold, map)
       IN IF linkWanted(e.score, threshold, map, e.id)
          THEN << [ source |-> e.id, target |-> member_key, score |-> e.score ] >>
                 \o rest
          ELSE rest

\* const threshold = cluster_group.settings?.threshold || 0.6
buildThreshold(setting) == JsOr(setting, BuildDefaultThreshold)

\* members.forEach of render(): the member node, then the member's links, looked
\* up in node_map as it is at that moment.
RECURSIVE renderMembers(_, _, _, _, _)
renderMembers(v, cls, mems, setting, st) ==
  IF mems = << >> THEN st
  ELSE LET member == Head(mems)
           member_key == memberKey(member)
           want == memberNodeWanted(v, cls, st, member_key)
           nodes1 == IF want THEN Append(st.nodes, memberNode(member_key))
                     ELSE st.nodes
           map1 == IF want THEN Put(st.node_map, member_key, Len(nodes1))
                   ELSE st.node_map
           links1 == st.links \o memberLinks(member.clusters, member_key,
                                             buildThreshold(setting), map1)
       IN renderMembers(v, cls, Tail(mems), setting,
            [ nodes |-> nodes1, node_map |-> map1, links |-> links1 ])

render(v, cls, mems, setting) ==
  renderMembers(v, cls, mems, setting,
    renderClusters(v, cls, [ nodes |-> << >>, node_map |-> << >>, links |-> << >> ]))

\* updateLinks(threshold): the new link list, from the final node_map.
RECURSIVE updateLinks(_, _, _)
updateLinks(mems, threshold, map) ==
  IF mems = << >> THEN << >>
  ELSE memberLinks(Head(mems).clusters, memberKey(Head(mems)), threshold, map)
         \o updateLinks(Tail(mems), threshold, map)

\* The slider's initial value.
initialSliderValue(setting) == JsOr(setting, SliderDefaultValue)

----------------------------------------------------------------------------
(* Viewport: d3.zoomIdentity, transform.apply, transform.invert *)

ExpandThreshold == 3000
zoomIdentity == [ x |-> 0, y |-> 0, k |-> 1000 ]

\* to_screen: d3 transform.apply
applyTransform(t, w) == << w[1] * t.k + t.x, w[2] * t.k + t.y >>

\* to_world: transform.invert([mx, my])
invert(t, s) == << (s[1] - t.x) \div t.k, (s[2] - t.y) \div t.k >>

----------------------------------------------------------------------------
(* Spatial picker *)

\* The circle without its border.
nodeHitStrict(p, q, radius) ==
  (p[1] - q[1]) * (p[1] - q[1]) + (p[2] - q[2]) * (p[2] - q[2]) < radius * radius

\* dx * dx + dy * dy <= node.radius * node.radius
nodeHit(p, q, radius) ==
  (p[1] - q[1]) * (p[1] - q[1]) + (p[2] - q[2]) * (p[2] - q[2]) <= radius * radius

\* No node is skipped, whatever the zoom.
pickableAlways(node, currentZoom) == TRUE

\* A center node is skipped while the zoom is below the expansion threshold.
pickable(node, currentZoom) ==
  ~ (node.type = "center" /\ currentZoom < ExpandThreshold)

\* The loop of findNodeAt from index i down: for (i = nodes.length - 1; ...).
RECURSIVE findNodeFrom(_, _, _, _, _)
findNodeFrom(i, p, ns, ps, currentZoom) ==
  IF i = 0 THEN 0
  ELSE IF ~pickable(ns[i], currentZoom)
       THEN findNodeFrom(i - 1, p, ns, ps, currentZoom)
       ELSE IF nodeHit(p, ps[i], ns[i].radius) THEN i
            ELSE findNodeFrom(i - 1, p, ns, ps, currentZoom)

\* findNodeAt: the node's index, or 0 for null.
findNodeAt(p, ns, ps, currentZoom) == findNodeFrom(Len(ns), p, ns, ps, currentZoom)

----------------------------------------------------------------------------
(* Render loop: ticked() repositions every center node on its parent's ring *)

\* (cos, sin) of i/n of a full turn, in thousandths, for the ring sizes used.
cosSin(angle) ==
  LET i == angle[1]
      n == angle[2]
  IN CASE n = 1 -> << 1000, 0 >>
       [] n = 2 -> IF i = 0 THEN << 1000, 0 >> ELSE << -1000, 0 >>
       [] n = 4 -> CASE i = 0 -> << 1000, 0 >>
                     [] i = 1 -> << 0, 1000 >>
                     [] i = 2 -> << -1000, 0 >>
                     [] OTHER -> << 0, -1000 >>
       [] OTHER -> << 1000, 0 >>

\* The offset forgotten: the center is put on its parent.
ringAtParent(node, parentPos) == parentPos

\* parent position + offsetDist * (cos, sin)(offsetAngle)
ringPosition(node, parentPos) ==
  << parentPos[1] + (node.offsetDist * cosSin(node.offsetAngle)[1]) \div 1000,
     parentPos[2] + (node.offsetDist * cosSin(node.offsetAngle)[2]) \div 1000 >>

\* Positions after ticked(): centers moved onto their ring, other nodes kept.
tickedPos(ns, ps) ==
  [ i \in DOMAIN ns |->
      IF ns[i].type = "center" THEN ringPosition(ns[i], ps[ns[i].parent])
      ELSE ps[i] ]

\* A redraw that fixes the center nodes and releases every other node.
tickedFxReleases(ns, ps, fs) ==
  [ i \in DOMAIN ns |->
      IF ns[i].type = "center" THEN tickedPos(ns, ps)[i] ELSE Null ]

\* fx/fy after ticked(): every center node is fixed where it was just put.
tickedFx(ns, ps, fs) ==
  [ i \in DOMAIN ns |->
      IF ns[i].type = "center" THEN tickedPos(ns, ps)[i] ELSE fs[i] ]

----------------------------------------------------------------------------
(* Fit to content: centerNetwork() *)

RECURSIVE minOf(_)
minOf(S) == LET x == CHOOSE y \in S : TRUE
            IN IF S = {x} THEN x ELSE Min(x, minOf(S \ {x}))
RECURSIVE maxOf(_)
maxOf(S) == LET x == CHOOSE y \in S : TRUE
            IN IF S = {x} THEN x ELSE Max(x, maxOf(S \ {x}))

\* A fit without the padding: scale = 1 / max(width / w, height / h).
centerNetworkNoPadding(ps, cv) ==
  LET xs == { ps[i][1] : i \in DOMAIN ps }
      ys == { ps[i][2] : i \in DOMAIN ps }
      networkWidth == maxOf(xs) - minOf(xs)
      networkHeight == maxOf(ys) - minOf(ys)
      scale == Min((10000 * cv.w) \div networkWidth, (10000 * cv.h) \div networkHeight)
  IN IF networkWidth = 0 \/ networkHeight = 0
     THEN [ x |-> 5000 * cv.w, y |-> 5000 * cv.h, k |-> 1000 ]
     ELSE [ x |-> 5000 * cv.w - (scale * (maxOf(xs) + minOf(xs))) \div 2,
            y |-> 5000 * cv.h - (scale * (maxOf(ys) + minOf(ys))) \div 2,
            k |-> scale ]

\* The transform centerNetwork() installs for positions ps on canvas cv.  The
\* padding is 10%: scale = 0.9 / max(width / w, height / h).
centerNetwork(ps, cv) ==
  LET xs == { ps[i][1] : i \in DOMAIN ps }
      ys == { ps[i][2] : i \in DOMAIN ps }
      networkWidth == maxOf(xs) - minOf(xs)
      networkHeight == maxOf(ys) - minOf(ys)
      scale == Min((9000 * cv.w) \div networkWidth, (9000 * cv.h) \div networkHeight)
  IN IF networkWidth = 0 \/ networkHeight = 0
     THEN [ x |-> 5000 * cv.w, y |-> 5000 * cv.h, k |-> 1000 ]
     ELSE [ x |-> 5000 * cv.w - (scale * (maxOf(xs) + minOf(xs))) \div 2,
            y |-> 5000 * cv.h - (scale * (maxOf(ys) + minOf(ys))) \div 2,
            k |-> scale ]

----------------------------------------------------------------------------
(* Toolbar dispatcher: updateToolbarUI() *)

AllButtons == { "createCluster", "removeFromCluster", "addToClusterCenter",
                "removeFromClusterCenter", "removeCluster" }

countType(ns, sel, type) == Cardinality({ i \in sel : ns[i].type = type })

\* Rule 1 without its exclusions: shown whenever a member is selected.
anyMembers(memberCount, clusterCount, centerCount) == memberCount > 0

\* Rule 1 of updateToolbarUI: members only.
onlyMembers(memberCount, clusterCount, centerCount) ==
  memberCount > 0 /\ clusterCount = 0 /\ centerCount = 0

\* Rule 2 of updateToolbarUI: member(s) and exactly one cluster.
memberPlusCluster(memberCount, clusterCount, centerCount) ==
  memberCount > 0 /\ clusterCount = 1

\* The buttons updateToolbarUI() leaves shown for a selection.
visibleButtons(ns, sel) ==
  LET memberCount == countType(ns, sel, "member")
      clusterCount == countType(ns, sel, "cluster")
      centerCount == countType(ns, sel, "center")
      onlyCenter == centerCount > 0 /\ memberCount = 0 /\ clusterCount = 0
      onlyCluster == clusterCount > 0 /\ memberCount = 0 /\ centerCount = 0
  IN IF sel = {} THEN {}
     ELSE (IF onlyMembers(memberCount, clusterCount, centerCount)
           THEN { "createCluster" } ELSE {})
          \cup (IF memberPlusCluster(memberCount, clusterCount, centerCount)
                THEN { "removeFromCluster", "addToClusterCenter" } ELSE {})
          \cup (IF onlyCenter
                THEN { "removeFromClusterCenter", "removeFromCluster" } ELSE {})
          \cup (IF onlyCluster THEN { "removeCluster" } ELSE {})

\* The buttons as the call at construction left them, for the empty selection.
updateToolbarUIStale(v, ns, sel) == IF v = "A" THEN AllButtons ELSE visibleButtons(ns, {})

\* Revision A has no dispatcher: its buttons are never hidden.
updateToolbarUI(v, ns, sel) == IF v = "A" THEN AllButtons ELSE visibleButtons(ns, sel)

----------------------------------------------------------------------------
(* Selection: updateSelection(isShiftKey) *)

\* The bounds taken exclusive.
inBoxStrict(p, a, b) ==
  /\ p[1] > Min(a[1], b[1]) /\ p[1] < Max(a[1], b[1])
  /\ p[2] > Min(a[2], b[2]) /\ p[2] < Max(a[2], b[2])

\* x >= minX && x <= maxX && y >= minY && y <= maxY
inBox(p, a, b) ==
  /\ p[1] >= Min(a[1], b[1]) /\ p[1] <= Max(a[1], b[1])
  /\ p[2] >= Min(a[2], b[2]) /\ p[2] <= Max(a[2], b[2])

nodesInBox(ns, ps, a, b) == { i \in DOMAIN ns : inBox(ps[i], a, b) }

updateSelection(isShiftKey, sel, ns, ps, a, b) ==
  IF a = Null \/ b = Null THEN sel
  ELSE IF isShiftKey THEN sel \cup nodesInBox(ns, ps, a, b)
       ELSE nodesInBox(ns, ps, a, b)

\* A modifier-click that adds the node but never removes it.
clickSelectionAddOnly(shiftKey, sel, clickedNode) ==
  IF shiftKey
  THEN IF clickedNode = 0 THEN sel ELSE sel \cup {clickedNode}
  ELSE IF clickedNode = 0 THEN {} ELSE {clickedNode}

\* The click handler's selection update.
clickSelection(shiftKey, sel, clickedNode) ==
  IF shiftKey
  THEN IF clickedNode = 0 THEN sel
       ELSE IF clickedNode \in sel THEN sel \ {clickedNode}
            ELSE sel \cup {clickedNode}
  ELSE IF clickedNode = 0 THEN {} ELSE {clickedNode}

\* Revision A reads clickedNode.item.path unguarded: a single-select click on
\* a node without an item throws after the selection was updated, before the
\* redraw.
clickThrows(v, shiftKey, ns, clickedNode) ==
  v = "A" /\ ~shiftKey /\ clickedNode # 0 /\ ~ns[clickedNode].hasItem

----------------------------------------------------------------------------
(* Force simulation (d3.forceSimulation): alpha and one tick of positions *)

AlphaAfterPreRun == 1
AlphaDragTarget == 1
AlphaUnpin == 8
AlphaRelink == 10

\* alpha += (alphaTarget - alpha) * alphaDecay, on the model's coarse scale:
\* alpha covers half of its distance to the target, rounded towards it.
alphaStep(a, target) ==
  IF a > target THEN a - ((a - target + 1) \div 2)
  ELSE IF a < target THEN a + ((target - a + 1) \div 2)
  ELSE a

\* The timer stops after a step that leaves alpha below alphaMin.
belowAlphaMin(a) == a < 1

\* A new simulation has alpha 1.
InitialAlpha == 10

\* const max_iter = opts.max_alpha_iterations || 100
DefaultMaxIter == 100

\* A loop without the bound on its iterations.
preRunContinuesUnbounded(a, n, max) == a > AlphaAfterPreRun

\* while (simulation.alpha() > 0.1 && i < max_iter)
preRunContinues(a, n, max) == a > AlphaAfterPreRun /\ n < max

\* The pre-run loop from alpha a after n ticks: the alpha it ends with and the
\* ticks it made.
RECURSIVE preRun(_, _, _)
preRun(a, n, max) ==
  IF preRunContinues(a, n, max) THEN preRun(alphaStep(a, 0), n + 1, max)
  ELSE [ alpha |-> a, i |-> n ]

\* simulation.tick(): a fixed node is put at fx/fy; a free node moves by the
\* velocity the forces gave it (drift[i], chosen by the caller).
tickPos(ps, fs, drift) ==
  [ i \in DOMAIN ps |-> IF fs[i] = Null THEN Add(ps[i], drift[i]) ELSE fs[i] ]

----------------------------------------------------------------------------
(* Pin button *)

\* nodes.forEach(n => { n.fx = n.x; n.fy = n.y; ... })
pinAllFx(ps) == [ i \in DOMAIN ps |-> ps[i] ]

\* An unpin that leaves every node fixed where it is.
unpinKeepsFx(ps) == [ i \in DOMAIN ps |-> ps[i] ]

\* nodes.forEach(n => { n.fx = null; n.fy = null; ... })
unpinAllFx(ps) == [ i \in DOMAIN ps |-> Null ]

----------------------------------------------------------------------------
(* Drag behaviour (d3.drag handlers) *)

\* Only the dragged node is recorded, whatever the selection.
startPositionsSubjectOnly(node, sel, ps) == [ n \in {node} |-> ps[n] ]

\* The moved set with the start position of each node in it.
startPositions(node, sel, ps) ==
  IF node \in sel THEN [ n \in sel |-> ps[n] ] ELSE [ n \in {node} |-> ps[n] ]

\* drag start: "unfix" the subject when the layout is pinned
dragStartFx(isPinned, node, fs) ==
  IF isPinned THEN [ fs EXCEPT ![node] = Null ] ELSE fs

\* drag: n.fx = startPos.x + dx; n.fy = startPos.y + dy
dragTarget(startPos, pointerWorld, startPointer) ==
  Add(startPos, Sub(pointerWorld, startPointer))

dragFx(fs, starts, pointerWorld, startPointer) ==
  [ i \in DOMAIN fs |->
      IF i \in DOMAIN starts THEN dragTarget(starts[i], pointerWorld, startPointer)
      ELSE fs[i] ]

\* A drag end that leaves the moved nodes fixed where the drag put them.
dragEndFxKept(isPinned, fs, starts, ps) == fs

\* end: pinned ? (n.fx = n.x, n.fy = n.y) : (n.fx = null, n.fy = null)
dragEndFx(isPinned, fs, starts, ps) ==
  [ i \in DOMAIN fs |->
      IF i \in DOMAIN starts THEN (IF isPinned THEN ps[i] ELSE Null) ELSE fs[i] ]

\* d3-drag's clickDistance(5): the press counts as a drag once the pointer is
\* more than 5 pixels from where the button went down.
ClickDistance == 5
pastClickDistance(s, d) ==
  LET dx == (s[1] - d[1]) \div 10000
      dy == (s[2] - d[2]) \div 10000
  IN dx * dx + dy * dy > ClickDistance * ClickDistance

----------------------------------------------------------------------------
(* Bounds and inputs of the model *)

MaxMembers == 3
MaxShift == 1

\* The step by which the model moves a node or the pointer: (10, 20) world units.
StepVec == << 100, 200 >>
Times(j, v) == << j * v[1], j * v[2] >>

SliderValues == { 0, 50, 100 }
Settings == { NoThreshold, 0, 50 }
ZoomLevels == { 1000, 3000 }
CanvasSize == [ w |-> 800, h |-> 600 ]

\* World points with no node on them, where the pointer can rest.
EmptyPoints == { << 0, 0 >>, << 9000, 0 >> }

\* Node i leaves the pre-run at HomePoints[i]; a free node drifts along
\* StepVec, at most MaxShift steps from there.  The points span 720 by 200
\* world units, which an 800 by 600 canvas fits at scale 1.
HomePoints ==
  << << 1000, 1000 >>, << 8200, 1000 >>, << 1000, 3000 >>, << 8200, 3000 >>,
     << 4000, 1000 >>, << 4000, 3000 >>, << 6000, 1000 >>, << 6000, 3000 >>,
     << 2000, 2000 >>, << 7000, 2000 >> >>
inWorld(i, p) == \E j \in 0 .. MaxShift : p = Add(HomePoints[i], Times(j, StepVec))

\* What the last handler was given, for stating properties: the event's shift
\* key, the selection and the handler that ran before it, the node it picked,
\* the positions at the start of a drag or the targets of one that ended, and
\* what a step of a toolbar handler did (out).
Outcome0 ==
  [ action |-> "", step |-> "", threw |-> FALSE, issued |-> << >>,
    render |-> FALSE ]
Hist0 ==
  [ shift |-> FALSE, sel |-> {}, node |-> 0, target |-> << >>, prev |-> "",
    out |-> Outcome0 ]

----------------------------------------------------------------------------
(* Handlers *)

\* The user's input reaches the view once its first frame is up (framed): the
\* first-frame callback runs within a frame of the canvas being attached.

\* canvas 'mousemove': hover, or the live selection rectangle.  During a drag
\* or a pan d3 takes the event at the window and the canvas does not see it.
MouseMove(w) ==
  LET s == applyTransform(transform, w)
      p == invert(transform, s)
  IN /\ framed
     /\ gesture \in { "none", "box" }
     /\ pointer' = s
     /\ IF isDragging
        THEN UNCHANGED << hoveredNode, selectionEnd, pos, fx, rendered >>
        ELSE /\ IF isSelecting
                THEN selectionEnd' = p /\ UNCHANGED hoveredNode
                ELSE /\ hoveredNode' = findNodeAt(p, nodes, pos, transform.k)
                     /\ UNCHANGED selectionEnd
             /\ pos' = tickedPos(nodes, pos)
             /\ fx' = tickedFx(nodes, pos, fx)
             /\ rendered' = TRUE
     /\ lastOp' = "mousemove"
     /\ hist' = Hist0
     /\ UNCHANGED << snapshotVars, sliderVars, graphVars, links, simVars, transform,
                     viewVars, pinned, selectedNodes, toolbar, isSelecting,
                     selectionStart, dragVars, gesture, downAt, moved >>
     /\ UNCHANGED hostVars

\* A filter that looks at the shift key only.
zoomFilterShiftOnly(shiftKey, s) == ~shiftKey

\* The zoom behaviour's filter: no pan or zoom with shift held or over a node.
zoomFilter(shiftKey, s) ==
  ~shiftKey /\ findNodeAt(invert(transform, s), nodes, pos, transform.k) = 0

\* The drag behaviour's subject.
dragSubjectAt(s) == findNodeAt(invert(transform, s), nodes, pos, transform.k)

\* mousedown taken by the zoom behaviour: a pan begins.
MouseDownPan(shiftKey) ==
  /\ framed
  /\ gesture = "none"
  /\ zoomFilter(shiftKey, pointer)
  /\ gesture' = "pan"
  /\ downAt' = pointer
  /\ moved' = FALSE
  /\ lastOp' = "panstart"
  /\ hist' = [ Hist0 EXCEPT !.shift = shiftKey ]
  /\ rendered' = FALSE
  /\ UNCHANGED << snapshotVars, sliderVars, graphVars, links, pos, fx, simVars,
                  transform, viewVars, pinned, selectedNodes, toolbar, hoveredNode,
                  boxVars, dragVars, pointer >>
  /\ UNCHANGED hostVars

\* mousedown taken by the drag behaviour: the 'start' handler.
MouseDownDrag(shiftKey) ==
  LET node == dragSubjectAt(pointer)
      starts == startPositions(node, selectedNodes, pos)
  IN /\ framed
     /\ gesture = "none"
     /\ ~zoomFilter(shiftKey, pointer)
     /\ node # 0
     /\ isDragging' = TRUE
     /\ hoveredNode' = 0
     /\ fx' = dragStartFx(pinned, node, fx)
     /\ alphaTarget' = AlphaDragTarget
     /\ running' = TRUE
     /\ dragStartPos' = invert(transform, pointer)
     /\ nodeStartPositions' = starts
     /\ dragSubject' = node
     /\ gesture' = "drag"
     /\ downAt' = pointer
     /\ moved' = FALSE
     /\ lastOp' = "dragstart"
     /\ hist' = [ Hist0 EXCEPT !.shift = shiftKey, !.sel = selectedNodes,
                               !.node = node, !.target = pos ]
     /\ rendered' = FALSE
     /\ UNCHANGED << snapshotVars, sliderVars, graphVars, links, pos, alpha,
                     transform, viewVars, pinned, selectedNodes, toolbar, boxVars,
                     pointer >>
     /\ UNCHANGED hostVars

\* canvas 'mousedown': reached when neither behaviour took the event.
MouseDownBox(shiftKey) ==
  /\ framed
  /\ gesture = "none"
  /\ ~zoomFilter(shiftKey, pointer)
  /\ dragSubjectAt(pointer) = 0
  /\ IF shiftKey
     THEN /\ isSelecting' = TRUE
          /\ selectionStart' = invert(transform, pointer)
          /\ selectionEnd' = invert(transform, pointer)
          /\ pos' = tickedPos(nodes, pos)
          /\ fx' = tickedFx(nodes, pos, fx)
          /\ rendered' = TRUE
     ELSE UNCHANGED << boxVars, pos, fx, rendered >>
  /\ gesture' = "box"
  /\ lastOp' = "boxstart"
  /\ hist' = [ Hist0 EXCEPT !.shift = shiftKey, !.sel = selectedNodes ]
  /\ UNCHANGED << snapshotVars, sliderVars, graphVars, links, simVars, transform,
                  viewVars, pinned, selectedNodes, toolbar, hoveredNode, dragVars,
                  pointer, downAt, moved >>
  /\ UNCHANGED hostVars

\* window 'mousemove' during a drag: the 'drag' handler.  The pointer moves by
\* j steps in world space.
DragMove(j) ==
  LET w == Add(invert(transform, pointer), Times(j, StepVec))
      s == applyTransform(transform, w)
      p == invert(transform, s)
      newFx == dragFx(fx, nodeStartPositions, p, dragStartPos)
  IN /\ gesture = "drag"
     /\ \E d \in (0 - MaxShift) .. MaxShift : Sub(p, dragStartPos) = Times(d, StepVec)
     /\ \A n \in DOMAIN nodeStartPositions :
          nodes[n].type = "center" \/ inWorld(n, newFx[n])
     /\ pointer' = s
     /\ moved' = (moved \/ pastClickDistance(s, downAt))
     /\ IF dragStartPos = Null THEN UNCHANGED fx ELSE fx' = newFx
     /\ lastOp' = "drag"
     /\ UNCHANGED hist
     /\ rendered' = FALSE
     /\ UNCHANGED << snapshotVars, sliderVars, graphVars, links, pos, simVars,
                     transform, viewVars, pinned, selectedNodes, toolbar,
                     hoveredNode, boxVars, dragVars, gesture, downAt >>
     /\ UNCHANGED hostVars

\* window 'mouseup' during a drag: the 'end' handler.
\* Where each moved node started plus the pointer's total world-space delta.
totalDeltaTargets ==
  [ n \in DOMAIN nodeStartPositions |->
      Add(nodeStartPositions[n], Sub(invert(transform, pointer), dragStartPos)) ]

\* A drag end that leaves the target where the drag start put it.
dragEndAlphaTargetKept(active, target) == target

\* if (!event.active) simulation.alphaTarget(0)
dragEndAlphaTarget(active, target) == IF active = 0 THEN 0 ELSE target

\* There is one mouse: no other drag gesture is active when this one ends.
MouseUpDrag ==
  /\ gesture = "drag"
  /\ alphaTarget' = dragEndAlphaTarget(0, alphaTarget)
  /\ fx' = dragEndFx(pinned, fx, nodeStartPositions, pos)
  /\ dragStartPos' = Null
  /\ nodeStartPositions' = << >>
  /\ isDragging' = FALSE
  /\ dragSubject' = 0
  /\ gesture' = IF moved THEN "none" ELSE "click"
  /\ downAt' = << 0, 0 >>
  /\ moved' = FALSE
  /\ lastOp' = "dragend"
  /\ hist' = [ hist EXCEPT !.sel = DOMAIN nodeStartPositions,
                            !.target = totalDeltaTargets ]
  /\ rendered' = FALSE
  /\ UNCHANGED << snapshotVars, sliderVars, graphVars, links, pos, alpha, running,
                  transform, viewVars, pinned, selectedNodes, toolbar, hoveredNode,
                  boxVars, pointer >>
  /\ UNCHANGED hostVars

\* canvas 'mouseup' ending a box-select.
MouseUpBox(shiftKey) ==
  /\ gesture = "box"
  /\ IF isSelecting
     THEN /\ isSelecting' = FALSE
          /\ selectedNodes' = updateSelection(shiftKey, selectedNodes, nodes, pos,
                                              selectionStart, selectionEnd)
          /\ toolbar' = updateToolbarUI(variant, nodes, selectedNodes')
          /\ pos' = tickedPos(nodes, pos)
          /\ fx' = tickedFx(nodes, pos, fx)
          /\ rendered' = TRUE
     ELSE UNCHANGED << isSelecting, selectedNodes, toolbar, pos, fx, rendered >>
  /\ gesture' = "click"
  /\ lastOp' = "boxend"
  /\ hist' = [ Hist0 EXCEPT !.shift = shiftKey, !.sel = selectedNodes ]
  /\ UNCHANGED << snapshotVars, sliderVars, graphVars, links, simVars, transform,
                  viewVars, pinned, hoveredNode, selectionStart, selectionEnd,
                  dragVars, pointer, downAt, moved >>
  /\ UNCHANGED hostVars

\* The button of a box-select is released with the pointer outside the
\* canvas: the 'mouseup' goes to another element and no listener of the canvas
\* runs, nor does a 'click' reach it.
MouseUpOutside ==
  /\ gesture = "box"
  /\ gesture' = "none"
  /\ lastOp' = "boxleft"
  /\ hist' = Hist0
  /\ UNCHANGED << snapshotVars, sliderVars, graphVars, links, pos, fx, simVars,
                  transform, viewVars, pinned, selectedNodes, toolbar, hoveredNode,
                  boxVars, dragVars, pointer, downAt, moved, rendered >>
  /\ UNCHANGED hostVars

\* window 'mouseup' ending a pan.
MouseUpPan ==
  /\ gesture = "pan"
  /\ gesture' = IF moved THEN "none" ELSE "click"
  /\ downAt' = << 0, 0 >>
  /\ moved' = FALSE
  /\ lastOp' = "panend"
  /\ hist' = Hist0
  /\ rendered' = FALSE
  /\ UNCHANGED << snapshotVars, sliderVars, graphVars, links, pos, fx, simVars,
                  transform, viewVars, pinned, selectedNodes, toolbar, hoveredNode,
                  boxVars, dragVars, pointer >>
  /\ UNCHANGED hostVars

\* canvas 'click': delivered after a mouseup that no behaviour suppressed.
Click(shiftKey) ==
  LET clickedNode == findNodeAt(invert(transform, pointer), nodes, pos, transform.k)
      thrown == clickThrows(variant, shiftKey, nodes, clickedNode)
  IN /\ gesture = "click"
     /\ gesture' = "none"
     /\ IF isSelecting
        THEN UNCHANGED << selectedNodes, toolbar, pos, fx, rendered >>
        ELSE /\ selectedNodes' = clickSelection(shiftKey, selectedNodes, clickedNode)
             /\ IF thrown
                THEN UNCHANGED << toolbar, pos, fx >> /\ rendered' = FALSE
                ELSE /\ toolbar' = updateToolbarUI(variant, nodes, selectedNodes')
                     /\ pos' = tickedPos(nodes, pos)
                     /\ fx' = tickedFx(nodes, pos, fx)
                     /\ rendered' = TRUE
     /\ lastOp' = "click"
     /\ hist' = [ Hist0 EXCEPT !.shift = shiftKey, !.sel = selectedNodes,
                               !.node = clickedNode, !.prev = lastOp ]
     /\ UNCHANGED << snapshotVars, sliderVars, graphVars, links, simVars, transform,
                     viewVars, pinned, hoveredNode, boxVars, dragVars, pointer,
                     downAt, moved >>
     /\ UNCHANGED hostVars

\* scaleExtent([0.1, 10]): the range d3-zoom keeps the scale of a gesture in.
ScaleMin == 100
ScaleMax == 10000

\* Wheel zoom about the pointer (d3-zoom), toward scale kNew, kept within the
\* scale extent; the 'zoom' listener stores the transform and redraws.
Wheel(kNew) ==
  LET w == invert(transform, pointer)
      k1 == Max(ScaleMin, Min(ScaleMax, kNew))
  IN /\ framed
     /\ gesture \in { "none", "box" }
     /\ zoomFilter(FALSE, pointer)
     /\ w = << 0, 0 >>
     /\ k1 # transform.k
     /\ transform' = [ x |-> pointer[1] - k1 * w[1],
                       y |-> pointer[2] - k1 * w[2], k |-> k1 ]
     /\ pos' = tickedPos(nodes, pos)
     /\ fx' = tickedFx(nodes, pos, fx)
     /\ rendered' = TRUE
     /\ lastOp' = "wheel"
     /\ hist' = Hist0
     /\ UNCHANGED << snapshotVars, sliderVars, graphVars, links, simVars, viewVars,
                     pinned, selectedNodes, toolbar, hoveredNode, boxVars,
                     dragVars, pointerVars >>
     /\ UNCHANGED hostVars

\* The pane is resized by the host: the container gets the size cv.  The
\* view registers no listener for it, so no code of the view runs.
ContainerResize(cv) ==
  /\ cv # containerSize
  /\ containerSize' = cv
  /\ lastOp' = "resize"
  /\ hist' = Hist0
  /\ UNCHANGED << snapshotVars, sliderVars, graphVars, links, pos, fx, simVars,
                  transform, viewVars, pinned, selectedNodes, toolbar, hoveredNode,
                  boxVars, dragVars, pointerVars, rendered, container, rendering,
                  latestCall, tasks >>

\* The size the canvas element has before resizeCanvas() measures the container.
CanvasDefault == [ w |-> 300, h |-> 150 ]

\* One step of the simulation's timer: tick(), the 'tick' listener ticked(),
\* then stop when alpha fell below alphaMin.  D is the set of free nodes the
\* forces move by a whole step in this tick; the ticks between the pre-run and
\* the first frame move none that far.
Tick(D) ==
  LET drift == [ i \in DOMAIN nodes |-> IF i \in D THEN StepVec ELSE << 0, 0 >> ]
      p1 == tickPos(pos, fx, drift)
  IN /\ running
     /\ D # {} => framed
     /\ \A i \in D : fx[i] = Null /\ nodes[i].type # "center"
     /\ \A i \in DOMAIN nodes : nodes[i].type # "center" => inWorld(i, p1[i])
     /\ alpha' = alphaStep(alpha, alphaTarget)
     /\ pos' = tickedPos(nodes, p1)
     /\ fx' = tickedFx(nodes, p1, fx)
     /\ running' = ~belowAlphaMin(alpha')
     /\ rendered' = TRUE
     /\ lastOp' = "tick"
     /\ hist' = IF isDragging THEN hist ELSE Hist0
     /\ UNCHANGED << snapshotVars, sliderVars, graphVars, links, alphaTarget,
                     transform, viewVars, pinned, selectedNodes, toolbar,
                     hoveredNode, boxVars, dragVars, pointerVars >>
     /\ UNCHANGED hostVars

\* The pin button's click handler.
PinClick ==
  /\ framed
  /\ gesture = "none"
  /\ pinned' = ~pinned
  /\ IF pinned'
     THEN /\ alpha' = 0
          /\ alphaTarget' = 0
          /\ fx' = pinAllFx(pos)
          /\ UNCHANGED running
     ELSE /\ fx' = unpinAllFx(pos)
          /\ alpha' = AlphaUnpin
          /\ running' = TRUE
          /\ UNCHANGED alphaTarget
  /\ rendered' = FALSE
  /\ lastOp' = "pin"
  /\ hist' = [ Hist0 EXCEPT !.prev = lastOp ]
  /\ UNCHANGED << snapshotVars, sliderVars, graphVars, links, pos, transform,
                  viewVars, selectedNodes, toolbar, hoveredNode, boxVars,
                  dragVars, pointerVars >>
  /\ UNCHANGED hostVars

\* The range input's lower end: 0.4 in revision A, 0 in revision B.
SliderMinA == 40
SliderMinB == 0
sliderMin(v) == IF v = "A" THEN SliderMinA ELSE SliderMinB

\* A timer that repeats: it is still pending after it fired.
pendingAfterFireRepeats(pending) == pending

\* setTimeout: the timer fires once and is gone.
pendingAfterFire(pending) == FALSE

\* slider 'input': the value changes and the debounce timer is (re)armed.
SliderInput(v) ==
  /\ framed
  /\ gesture = "none"
  /\ v >= sliderMin(variant)
  /\ v # sliderValue
  /\ sliderValue' = v
  /\ debounce' = TRUE
  /\ rendered' = FALSE
  /\ lastOp' = "input"
  /\ hist' = [ Hist0 EXCEPT !.prev = lastOp ]
  /\ UNCHANGED << snapshotVars, graphVars, links, pos, fx, simVars, transform,
                  viewVars, pinned, selectedNodes, toolbar, hoveredNode, boxVars,
                  dragVars, pointerVars >>
  /\ UNCHANGED hostVars

\* The debounce timer fires: updateLinks(threshold); centerNetwork(); the
\* 'zoom' listener stores the transform and redraws.  The callback is given
\* nothing: hist stays what the state before it held.
DebounceFire ==
  /\ debounce
  /\ debounce' = pendingAfterFire(debounce)
  /\ links' = updateLinks(members, sliderValue, node_map)
  /\ alpha' = AlphaRelink
  /\ running' = TRUE
  /\ transform' = centerNetwork(pos, canvas)
  /\ pos' = tickedPos(nodes, pos)
  /\ fx' = tickedFx(nodes, pos, fx)
  /\ rendered' = TRUE
  /\ lastOp' = "relink"
  /\ hist' = hist
  /\ UNCHANGED << snapshotVars, sliderValue, graphVars, alphaTarget, viewVars,
                  pinned, selectedNodes, toolbar, hoveredNode, boxVars, dragVars,
                  pointerVars >>
  /\ UNCHANGED hostVars

\* The deferred first-frame callback: resizeCanvas(); centerNetwork(); ticked().
FirstFrame ==
  LET p1 == tickedPos(nodes, pos)
  IN /\ ~framed
     /\ framed' = TRUE
     /\ canvas' = containerSize
     /\ transform' = centerNetwork(p1, containerSize)
     /\ pos' = p1
     /\ fx' = tickedFx(nodes, pos, fx)
     /\ rendered' = TRUE
     /\ lastOp' = "firstframe"
     /\ hist' = Hist0
     /\ UNCHANGED << snapshotVars, sliderVars, graphVars, links, simVars, pinned,
                     selectedNodes, toolbar, hoveredNode, boxVars, dragVars,
                     pointerVars >>
     /\ UNCHANGED hostVars

----------------------------------------------------------------------------
(* Toolbar actions: the click handlers of the mutation buttons *)

MaxTasks == 2

\* What a property read gives on a node that lacks the property.
Undefined == "undefined"

\* node.item, node.centerObj, node.cluster
nodeItem(node) == IF node.hasItem THEN node.id ELSE Undefined
nodeCenterObj(node) == IF node.type = "center" THEN node.id ELSE Undefined
nodeCluster(node) == IF node.cluster = "" THEN Undefined ELSE node.cluster

NoCalls == [ threw |-> FALSE, calls |-> << >> ]
Threw == [ threw |-> TRUE, calls |-> << >> ]
OneCall(op, target, items) ==
  [ threw |-> FALSE,
    calls |-> << [ op |-> op, target |-> target, items |-> items ] >> ]

\* 'Create cluster': node.item.key of every selected node, then
\* create_or_update({ center }) and add_cluster(cluster).
createClusterPlan(ns, sel) ==
  IF \E i \in sel : ~ns[i].hasItem THEN Threw
  ELSE [ threw |-> FALSE,
         calls |-> << [ op |-> "create_or_update", target |-> "clusters",
                        items |-> { ns[i].id : i \in sel } ],
                      [ op |-> "add_cluster", target |-> "cluster_group",
                        items |-> { "created" } ] >> ]

\* The reduce of revision B: items are the selected members' items, cluster is
\* the cluster of the selected cluster node the iteration visits last (n), and
\* stays null when no cluster node is selected.
membersAndCluster(op, ns, sel, n) ==
  IF n = 0 THEN Threw
  ELSE OneCall(op, ns[n].cluster,
               { ns[i].id : i \in { j \in sel : ns[j].type = "member" } })

\* 'Add to cluster center'
addToClusterCenterPlan(v, ns, sel, n) ==
  IF v = "A"
  THEN OneCall("add_centers", "cluster_group", { nodeItem(ns[i]) : i \in sel })
  ELSE membersAndCluster("add_centers", ns, sel, n)

\* 'Remove from cluster center': the parent of the first selected node (n)
\* names the cluster; the handler returns when there is none.
removeFromClusterCenterPlan(v, ns, sel, n) ==
  IF n = 0 THEN NoCalls
  ELSE IF ns[n].parent = 0 THEN NoCalls
  ELSE OneCall("remove_centers", nodeCluster(ns[ns[n].parent]),
               { IF v = "A" THEN nodeCenterObj(ns[i]) ELSE nodeItem(ns[i]) :
                   i \in sel })

\* 'Remove cluster'
removeClusterPlan(ns, sel) ==
  OneCall("remove_clusters", "cluster_group", { nodeCluster(ns[i]) : i \in sel })

\* 'Ungroup'.  Revision A: the button opens a menu of the clusters and the
\* menu item of cluster n calls handleClusterItemSelected.  Revision B: the
\* same reduce as 'Add to cluster center'.
removeFromClusterPlan(v, ns, sel, n) ==
  IF v = "A"
  THEN OneCall("remove_members", ns[n].cluster, { nodeItem(ns[i]) : i \in sel })
  ELSE membersAndCluster("remove_members", ns, sel, n)

\* The nodes the iteration order of the selection can single out for a
\* handler (0: none): the first selected node, the last selected cluster node,
\* or in revision A the cluster picked in the menu.
iterationChoices(v, button, ns, sel) ==
  LET selClusters == { i \in sel : ns[i].type = "cluster" }
      allClusters == { i \in DOMAIN ns : ns[i].type = "cluster" }
  IN CASE button = "removeFromClusterCenter" -> IF sel = {} THEN {0} ELSE sel
       [] button = "removeFromCluster" /\ v = "A" -> allClusters
       [] button \in { "removeFromCluster", "addToClusterCenter" } /\ v = "B" ->
            IF selClusters = {} THEN {0} ELSE selClusters
       [] OTHER -> {0}

toolbarPlan(v, button, ns, sel, n) ==
  CASE button = "createCluster" -> createClusterPlan(ns, sel)
    [] button = "addToClusterCenter" -> addToClusterCenterPlan(v, ns, sel, n)
    [] button = "removeFromClusterCenter" -> removeFromClusterCenterPlan(v, ns, sel, n)
    [] button = "removeCluster" -> removeClusterPlan(ns, sel)
    [] OTHER -> removeFromClusterPlan(v, ns, sel, n)

\* The view's fragment is in the document: its canvas and buttons get events.
attached == container = << "fragment" >>

\* Handlers awaiting a call plus render_view() calls awaiting the component.
pending == Len(tasks) + rendering

\* The list without its t-th entry.
removeAt(list, t) == SubSeq(list, 1, t - 1) \o SubSeq(list, t + 1, Len(list))

\* A mutation button's 'click' listener, up to its first await.
ToolbarClick(button, n) ==
  LET pl == toolbarPlan(variant, button, nodes, selectedNodes, n)
  IN /\ framed
     /\ attached
     /\ gesture = "none"
     /\ button \in toolbar
     /\ n \in iterationChoices(variant, button, nodes, selectedNodes)
     /\ pending < MaxTasks
     /\ IF pl.calls = << >>
        THEN UNCHANGED tasks
        ELSE tasks' = Append(tasks, [ action |-> button,
                                      call |-> Head(pl.calls),
                                      rest |-> Tail(pl.calls) ])
     /\ hist' = [ Hist0 EXCEPT
                    !.sel = selectedNodes,
                    !.out = [ action |-> button, step |-> "click",
                              threw |-> pl.threw,
                              issued |-> IF pl.calls = << >> THEN << >>
                                         ELSE << Head(pl.calls) >>,
                              render |-> FALSE ] ]
     /\ lastOp' = "toolbar"
     /\ rendered' = FALSE
     /\ UNCHANGED << snapshotVars, sliderVars, graphVars, links, pos, fx, simVars,
                     transform, viewVars, pinned, selectedNodes, toolbar,
                     hoveredNode, boxVars, dragVars, pointerVars, containerSize,
                     container, rendering, latestCall >>

\* view.render_view() up to its await: container.empty(), then the loading
\* placeholder is put in.
renderViewStart(children) == << "loading" >>

\* The fragment appended to what the container holds, without emptying it.
renderViewEndAppends(children) == Append(children, "fragment")

\* view.render_view() after its await: container.empty(), then
\* container.appendChild(frag).
renderViewEnd(children) == << "fragment" >>

\* view.render_view() called as soon as the first call resolved.
requestsRenderEarly(task) == TRUE

\* view.render_view() is the statement after the handler's last await.
requestsRender(task) == task.rest = << >>

\* The external call of handler t resolves: the handler goes on to its next
\* call, or after the last one calls view.render_view().
CallResolve(t) ==
  LET task == tasks[t]
      issued == IF task.rest = << >> THEN << >> ELSE << Head(task.rest) >>
  IN /\ t \in DOMAIN tasks
     /\ tasks' = IF task.rest = << >> THEN removeAt(tasks, t)
                 ELSE [ tasks EXCEPT ![t].call = Head(task.rest),
                                     ![t].rest = Tail(task.rest) ]
     /\ IF requestsRender(task)
        THEN /\ container' = renderViewStart(container)
             /\ rendering' = rendering + 1
             /\ latestCall' = "pending"
        ELSE UNCHANGED << container, rendering, latestCall >>
     /\ hist' = [ Hist0 EXCEPT
                    !.out = [ action |-> task.action, step |-> "resolve",
                              threw |-> FALSE, issued |-> issued,
                              render |-> requestsRender(task) ] ]
     /\ lastOp' = "resolve"
     /\ rendered' = FALSE
     /\ UNCHANGED << snapshotVars, sliderVars, graphVars, links, pos, fx, simVars,
                     transform, viewVars, pinned, selectedNodes, toolbar,
                     hoveredNode, boxVars, dragVars, pointerVars, containerSize >>

\* A handler that requests the re-render whether its call resolved or not.
rendersAfterRejectAlways(task) == TRUE

\* A rejected await throws out of the handler: view.render_view(), the
\* statement after it, is not run.
rendersAfterReject(task) == FALSE

\* The external call of handler t rejects: the handler ends there.
CallReject(t) ==
  /\ t \in DOMAIN tasks
  /\ tasks' = removeAt(tasks, t)
  /\ IF rendersAfterReject(tasks[t])
     THEN /\ container' = renderViewStart(container)
          /\ rendering' = rendering + 1
          /\ latestCall' = "pending"
     ELSE UNCHANGED << container, rendering, latestCall >>
  /\ hist' = [ Hist0 EXCEPT
                 !.sel = selectedNodes,
                 !.out = [ action |-> tasks[t].action, step |-> "reject",
                           threw |-> FALSE, issued |-> << >>,
                           render |-> rendersAfterReject(tasks[t]) ] ]
  /\ lastOp' = "reject"
  /\ rendered' = FALSE
  /\ UNCHANGED << snapshotVars, sliderVars, graphVars, links, pos, fx, simVars,
                  transform, viewVars, pinned, selectedNodes, toolbar,
                  hoveredNode, boxVars, dragVars, pointerVars, containerSize >>

\* The refresh button's 'click' listener: view.render_view().
RefreshClick ==
  /\ framed
  /\ attached
  /\ gesture = "none"
  /\ pending < MaxTasks
  /\ container' = renderViewStart(container)
  /\ rendering' = rendering + 1
  /\ latestCall' = "pending"
  /\ lastOp' = "refresh"
  /\ rendered' = FALSE
  /\ hist' = Hist0
  /\ UNCHANGED << snapshotVars, sliderVars, graphVars, links, pos, fx, simVars,
                  transform, viewVars, pinned, selectedNodes, toolbar,
                  hoveredNode, boxVars, dragVars, pointerVars, containerSize,
                  tasks >>

\* A render_view() call resumes after its await: render() has built a new
\* fragment with a new graph from the snapshot it fetched, and the container
\* is emptied and given that fragment.  The handlers of the fragment before it
\* that still await a call stay as they are.  Each call awaits
\* render_component() on its own, and nothing orders their resumptions: the
\* call that resumes is the most recently started one (latest) or one started
\* before it.
RenderViewDone ==
  LET g == render(variant, clusters, members, settingsThreshold)
  IN /\ rendering > 0
     /\ rendering' = rendering - 1
     /\ \E latest \in BOOLEAN :
          /\ latest => latestCall = "pending"
          /\ ~latest => rendering > (IF latestCall = "pending" THEN 1 ELSE 0)
          /\ latestCall' = IF latest THEN "shown"
                           ELSE IF latestCall = "pending" THEN "pending"
                           ELSE "replaced"
     /\ container' = renderViewEnd(container)
     /\ sliderValue' = initialSliderValue(settingsThreshold)
     /\ debounce' = FALSE
     /\ nodes' = g.nodes
     /\ node_map' = g.node_map
     /\ links' = g.links
     /\ pos' = [ i \in DOMAIN g.nodes |-> HomePoints[i] ]
     /\ fx' = [ i \in DOMAIN g.nodes |-> Null ]
     /\ alpha' = AlphaAfterPreRun
     /\ alphaTarget' = 0
     /\ running' = TRUE
     /\ transform' = zoomIdentity
     /\ canvas' = CanvasDefault
     /\ framed' = FALSE
     /\ pinned' = FALSE
     /\ selectedNodes' = {}
     /\ toolbar' = updateToolbarUI(variant, g.nodes, {})
     /\ hoveredNode' = 0
     /\ isSelecting' = FALSE
     /\ selectionStart' = Null
     /\ selectionEnd' = Null
     /\ isDragging' = FALSE
     /\ dragSubject' = 0
     /\ dragStartPos' = Null
     /\ nodeStartPositions' = << >>
     /\ gesture' = "none"
     /\ pointer' = << 0, 0 >>
     /\ downAt' = << 0, 0 >>
     /\ moved' = FALSE
     /\ lastOp' = "render"
     /\ rendered' = FALSE
     /\ hist' = [ Hist0 EXCEPT !.prev = lastOp ]
     /\ UNCHANGED << snapshotVars, containerSize, tasks >>

----------------------------------------------------------------------------
(* The state render() leaves behind *)

\* home[i] is where the pre-run leaves node i.
InitBuilt(v, cls, mems, setting, home) ==
  LET g == render(v, cls, mems, setting)
  IN /\ variant = v
     /\ cluster_group = TRUE
     /\ clusters = cls
     /\ members = mems
     /\ settingsThreshold = setting
     /\ sliderValue = initialSliderValue(setting)
     /\ debounce = FALSE
     /\ nodes = g.nodes
     /\ node_map = g.node_map
     /\ links = g.links
     /\ pos = [ i \in DOMAIN g.nodes |-> home[i] ]
     /\ fx = [ i \in DOMAIN g.nodes |-> Null ]
     /\ alphaTarget = 0
     /\ running = TRUE
     /\ transform = zoomIdentity
     /\ canvas = CanvasDefault
     /\ framed = FALSE
     /\ pinned = FALSE
     /\ selectedNodes = {}
     /\ toolbar = updateToolbarUI(v, g.nodes, {})
     /\ hoveredNode = 0
     /\ isSelecting = FALSE
     /\ selectionStart = Null
     /\ selectionEnd = Null
     /\ isDragging = FALSE
     /\ dragSubject = 0
     /\ dragStartPos = Null
     /\ nodeStartPositions = << >>
     /\ gesture = "none"
     /\ pointer = << 0, 0 >>
     /\ downAt = << 0, 0 >>
     /\ moved = FALSE
     /\ rendered = FALSE
     /\ hist = Hist0
     /\ containerSize = CanvasSize
     /\ container = << "fragment" >>
     /\ rendering = 0
     /\ latestCall = "shown"
     /\ tasks = << >>

\* The state render() leaves behind with the default options: the pre-run has
\* ended.  home[i] is where the pre-run leaves node i.
InitViewAt(v, cls, mems, setting, home) ==
  /\ InitBuilt(v, cls, mems, setting, home)
  /\ max_iter = DefaultMaxIter
  /\ iterations = preRun(InitialAlpha, 0, DefaultMaxIter).i
  /\ alpha = AlphaAfterPreRun
  /\ lastOp = "render"

\* The state in which render() enters its pre-run loop, with
\* opts.max_alpha_iterations = option: the simulation is new.
InitPreRun(v, cls, mems, setting, option) ==
  /\ InitBuilt(v, cls, mems, setting, HomePoints)
  /\ max_iter = JsOr(option, DefaultMaxIter)
  /\ iterations = 0
  /\ alpha = InitialAlpha
  /\ lastOp = "build"

\* render() is in its pre-run loop, which no event and no timer interrupts.
inPreRun == lastOp \in { "build", "prerun" }

\* One turn of the loop: simulation.tick(); i++.  The positions the loop
\* passes through are not modelled: pos holds where it leaves the nodes.
PreRunTick ==
  /\ inPreRun
  /\ preRunContinues(alpha, iterations, max_iter)
  /\ alpha' = alphaStep(alpha, alphaTarget)
  /\ iterations' = iterations + 1
  /\ lastOp' = "prerun"
  /\ hist' = Hist0
  /\ UNCHANGED << variant, cluster_group, clusters, members, settingsThreshold,
                  max_iter, sliderVars, graphVars, links, pos, fx,
                  alphaTarget, running, transform, viewVars, pinned, selectedNodes,
                  toolbar, hoveredNode, boxVars, dragVars, pointerVars, rendered >>
  /\ UNCHANGED hostVars

\* The loop ends: simulation.alphaTarget(0).restart().
PreRunDone ==
  /\ inPreRun
  /\ ~preRunContinues(alpha, iterations, max_iter)
  /\ alphaTarget' = 0
  /\ running' = TRUE
  /\ lastOp' = "render"
  /\ hist' = Hist0
  /\ UNCHANGED << snapshotVars, sliderVars, graphVars, links, pos, fx, alpha,
                  transform, viewVars, pinned, selectedNodes, toolbar, hoveredNode,
                  boxVars, dragVars, pointerVars, rendered >>
  /\ UNCHANGED hostVars

InitView(v, cls, mems, setting) == InitViewAt(v, cls, mems, setting, HomePoints)

\* The state render() leaves behind when cluster_groups.items is empty: it
\* returns the fragment '<div>No cluster group found!</div>' before it reads
\* a snapshot, builds a node or creates the simulation.
InitPlaceholder(v) ==
  /\ variant = v
  /\ cluster_group = FALSE
  /\ max_iter = DefaultMaxIter
  /\ iterations = 0
  /\ clusters = << >>
  /\ members = << >>
  /\ settingsThreshold = NoThreshold
  /\ sliderValue = SliderDefaultValue
  /\ debounce = FALSE
  /\ nodes = << >>
  /\ node_map = << >>
  /\ links = << >>
  /\ pos = << >>
  /\ fx = << >>
  /\ alpha = 0
  /\ alphaTarget = 0
  /\ running = FALSE
  /\ transform = zoomIdentity
  /\ canvas = CanvasDefault
  /\ framed = FALSE
  /\ pinned = FALSE
  /\ selectedNodes = {}
  /\ toolbar = {}
  /\ hoveredNode = 0
  /\ isSelecting = FALSE
  /\ selectionStart = Null
  /\ selectionEnd = Null
  /\ isDragging = FALSE
  /\ dragSubject = 0
  /\ dragStartPos = Null
  /\ nodeStartPositions = << >>
  /\ gesture = "none"
  /\ pointer = << 0, 0 >>
  /\ downAt = << 0, 0 >>
  /\ moved = FALSE
  /\ lastOp = "render"
  /\ rendered = FALSE
  /\ hist = Hist0
  /\ containerSize = CanvasSize
  /\ container = << "placeholder" >>
  /\ rendering = 0
  /\ latestCall = "shown"
  /\ tasks = << >>

----------------------------------------------------------------------------
(* Specification of the graph builder and the threshold slider *)

MemberKeys == << "m1", "m2", "m3", "m4", "m5" >>

\* What one member's clusters map can hold: a score for c1, a score for c2.
MemberMaps ==
  { << >>,
    << [ id |-> "c1", score |-> 30 ] >>,
    << [ id |-> "c1", score |-> 60 ] >>,
    << [ id |-> "c1", score |-> 90 ] >>,
    << [ id |-> "c2", score |-> 60 ] >>,
    << [ id |-> "c1", score |-> 90 ], [ id |-> "c2", score |-> 60 ] >> }

\* Cluster lists: one bare cluster (a c2 entry is then stale); a cluster with
\* a center and a second cluster; a cluster whose center is the member m1.
ClusterLists ==
  { << [ key |-> "c1", centers |-> << >> ] >>,
    << [ key |-> "c1", centers |-> << "k1" >> ], [ key |-> "c2", centers |-> << >> ] >>,
    << [ key |-> "c1", centers |-> << "m1" >> ] >> }

MemberLists ==
  UNION { { [ i \in 1 .. n |-> [ key |-> MemberKeys[i], clusters |-> f[i] ] ] :
              f \in [ 1 .. n -> MemberMaps ] } : n \in 1 .. MaxMembers }

InitBuild ==
  \E v \in { "A", "B" }, cls \in ClusterLists, mems \in MemberLists,
     setting \in Settings :
    InitView(v, cls, mems, setting)

NextBuild ==
  \/ FirstFrame
  \/ \E v \in SliderValues : SliderInput(v)
  \/ DebounceFire

SpecBuild == InitBuild /\ [][NextBuild]_vars

\* The builder and the slider on members scored between the slider's first
\* value and the build's default threshold, with the slider moved over the
\* values 0.4, 0.5 and 1.
ThresholdMembers ==
  { << [ key |-> "m1", clusters |-> << [ id |-> "c1", score |-> 50 ] >> ] >>,
    << [ key |-> "m1", clusters |-> << [ id |-> "c1", score |-> 50 ] >> ],
       [ key |-> "m2", clusters |-> << [ id |-> "c1", score |-> 90 ] >> ] >>,
    << [ key |-> "m1", clusters |-> << [ id |-> "c1", score |-> 40 ] >> ],
       [ key |-> "m2", clusters |-> << [ id |-> "c1", score |-> 60 ] >> ] >> }

InitThreshold ==
  \E v \in { "A", "B" }, mems \in ThresholdMembers, setting \in Settings :
    InitView(v, << [ key |-> "c1", centers |-> << >> ] >>, mems, setting)

NextThreshold ==
  \/ FirstFrame
  \/ \E v \in { 40, 50, 100 } : SliderInput(v)
  \/ DebounceFire

SpecThreshold == InitThreshold /\ [][NextThreshold]_vars

----------------------------------------------------------------------------
(* Specification of pointer selection: hover, click, box-select, zoom *)

\* The snapshot on screen: c1 with the center k1, c2, and the member m1.
ViewClusters ==
  << [ key |-> "c1", centers |-> << "k1" >> ], [ key |-> "c2", centers |-> << >> ] >>
ViewMembers ==
  << [ key |-> "m1", clusters |-> << [ id |-> "c1", score |-> 90 ],
                                     [ id |-> "c2", score |-> 30 ] >> ] >>

\* Where the pointer is put: on a node, or on an empty point.
NodePoints == { pos[i] : i \in DOMAIN pos }
PointerTargets == EmptyPoints \cup NodePoints

InitSelect ==
  \E v \in { "A", "B" } : InitView(v, ViewClusters, ViewMembers, 50)

NextSelect ==
  \/ FirstFrame
  \/ \E w \in PointerTargets : MouseMove(w)
  \/ \E shiftKey \in BOOLEAN : MouseDownPan(shiftKey)
  \/ \E shiftKey \in BOOLEAN : MouseDownDrag(shiftKey)
  \/ \E shiftKey \in BOOLEAN : MouseDownBox(shiftKey)
  \/ MouseUpPan
  \/ MouseUpDrag
  \/ \E shiftKey \in BOOLEAN : MouseUpBox(shiftKey)
  \/ \E shiftKey \in BOOLEAN : Click(shiftKey)
  \/ \E kNew \in ZoomLevels : Wheel(kNew)

SpecSelect == InitSelect /\ [][NextSelect]_vars

----------------------------------------------------------------------------
(* Specification of dragging, pinning and the simulation's ticks *)

\* The snapshot on screen: c1 and two members of it.
DragClusters == << [ key |-> "c1", centers |-> << >> ] >>
DragMembers ==
  << [ key |-> "m1", clusters |-> << [ id |-> "c1", score |-> 90 ] >> ],
     [ key |-> "m2", clusters |-> << [ id |-> "c1", score |-> 60 ] >> ] >>

InitDrag == InitView("B", DragClusters, DragMembers, 50)

NextDrag ==
  \/ FirstFrame
  \/ \E D \in SUBSET (DOMAIN nodes) : Tick(D)
  \/ PinClick
  \/ \E w \in NodePoints : MouseMove(w)
  \/ \E shiftKey \in BOOLEAN : MouseDownDrag(shiftKey)
  \/ \E j \in { -1, 1 } : DragMove(j)
  \/ MouseUpDrag
  \/ \E shiftKey \in BOOLEAN : Click(shiftKey)

SpecDrag == InitDrag /\ [][NextDrag]_vars

----------------------------------------------------------------------------
(* Specification of the center ring: ticks, drags, pinning, zoom, relinks *)

\* The snapshot on screen: c1 with the center k1; the only member is k1
\* itself, which gets no member node while it is a center.
RingClusters == << [ key |-> "c1", centers |-> << "k1" >> ] >>
RingMembers ==
  << [ key |-> "k1", clusters |-> << [ id |-> "c1", score |-> 90 ] >> ] >>

InitRing == InitView("B", RingClusters, RingMembers, 50)

NextRing ==
  \/ FirstFrame
  \/ \E D \in SUBSET (DOMAIN nodes) : Tick(D)
  \/ PinClick
  \/ \E w \in NodePoints \cup { << 0, 0 >> } : MouseMove(w)
  \/ \E kNew \in ZoomLevels : Wheel(kNew)
  \/ \E shiftKey \in BOOLEAN : MouseDownDrag(shiftKey)
  \/ \E j \in { -1, 1 } : DragMove(j)
  \/ MouseUpDrag
  \/ \E shiftKey \in BOOLEAN : Click(shiftKey)
  \/ SliderInput(100)
  \/ DebounceFire

SpecRing == InitRing /\ [][NextRing]_vars

----------------------------------------------------------------------------
(* Specification of the toolbar actions and of render_view() *)

\* The snapshot on screen: c1 with the center k1, and the member m1.
ToolbarClusters == << [ key |-> "c1", centers |-> << "k1" >> ] >>
ToolbarMembers ==
  << [ key |-> "m1", clusters |-> << [ id |-> "c1", score |-> 90 ] >> ] >>

InitToolbar == InitView("B", ToolbarClusters, ToolbarMembers, 50)

NextToolbar ==
  \/ FirstFrame
  \/ \E w \in NodePoints \cup { << 0, 0 >> } : attached /\ MouseMove(w)
  \/ attached /\ Wheel(ExpandThreshold)
  \/ attached /\ MouseDownDrag(FALSE)
  \/ MouseUpDrag
  \/ \E shiftKey \in BOOLEAN : attached /\ Click(shiftKey)
  \/ \E button \in AllButtons, n \in 0 .. Len(nodes) : ToolbarClick(button, n)
  \/ \E t \in DOMAIN tasks : CallResolve(t)
  \/ \E t \in DOMAIN tasks : CallReject(t)

SpecToolbar == InitToolbar /\ [][NextToolbar]_vars

\* Clicks and the toolbar on a snapshot of two clusters with a center each.
CenterClusters ==
  << [ key |-> "c1", centers |-> << "k1" >> ], [ key |-> "c2", centers |-> << "k2" >> ] >>
CenterMembers ==
  << [ key |-> "k1", clusters |-> << [ id |-> "c1", score |-> 90 ] >> ],
     [ key |-> "k2", clusters |-> << [ id |-> "c2", score |-> 90 ] >> ] >>

InitCenters == InitView("B", CenterClusters, CenterMembers, 50)

NextCenters ==
  \/ FirstFrame
  \/ \E w \in NodePoints \cup { << 0, 0 >> } : attached /\ MouseMove(w)
  \/ attached /\ Wheel(ExpandThreshold)
  \/ attached /\ MouseDownDrag(FALSE)
  \/ MouseUpDrag
  \/ \E shiftKey \in BOOLEAN : attached /\ Click(shiftKey)
  \/ \E n \in 0 .. Len(nodes) : ToolbarClick("removeFromClusterCenter", n)
  \/ \E t \in DOMAIN tasks : CallResolve(t)

SpecCenters == InitCenters /\ [][NextCenters]_vars

----------------------------------------------------------------------------
(* Specification of render_view(): refreshes and the re-renders of actions *)

\* Revision A, whose buttons are never hidden, with nothing selected.
InitRender == InitView("A", ToolbarClusters, ToolbarMembers, 50)

NextRender ==
  \/ FirstFrame
  \/ \E button \in AllButtons, n \in 0 .. Len(nodes) : ToolbarClick(button, n)
  \/ \E t \in DOMAIN tasks : CallResolve(t)
  \/ \E t \in DOMAIN tasks : CallReject(t)
  \/ RefreshClick
  \/ RenderViewDone

SpecRender == InitRender /\ [][NextRender]_vars

----------------------------------------------------------------------------
(* Specification of the picker: hover, click, drag subject, zoom filter *)

\* A layout with overlaps, on one row: c1, its center k1 on the ring inside
\* it, m1 overlapping c1's border and m2 overlapping m1.
PickHome ==
  << << 1000, 1000 >>, << 1161, 1000 >>, << 1300, 1000 >>, << 1370, 1000 >> >>

\* Where the pointer is put: node centres, points on and just outside the
\* border of c1 (radius 20 or 23) and of m2, the ring of revision A, and the
\* origin, which is empty.
PickPoints ==
  { << x, 1000 >> : x \in { 1000, 1140, 1161, 1200, 1201, 1230, 1231, 1300,
                            1370, 1440, 1441 } } \cup { << 0, 0 >> }

InitPick ==
  \E v \in { "A", "B" } : InitViewAt(v, ToolbarClusters, DragMembers, 50, PickHome)

NextPick ==
  \/ FirstFrame
  \/ \E w \in PickPoints : MouseMove(w)
  \/ \E kNew \in ZoomLevels : Wheel(kNew)
  \/ \E shiftKey \in BOOLEAN : MouseDownPan(shiftKey)
  \/ \E shiftKey \in BOOLEAN : MouseDownDrag(shiftKey)
  \/ \E shiftKey \in BOOLEAN : MouseDownBox(shiftKey)
  \/ MouseUpPan
  \/ MouseUpDrag
  \/ \E shiftKey \in BOOLEAN : MouseUpBox(shiftKey)
  \/ MouseUpOutside
  \/ Click(FALSE)

SpecPick == InitPick /\ [][NextPick]_vars

----------------------------------------------------------------------------
(* Specification of the viewport: fit, zoom, pan, relinks and pane resizes *)

\* Sizes of the container: the usual pane, a low one and a narrow strip.
ContainerSizes == { CanvasSize, [ w |-> 200, h |-> 50 ], [ w |-> 60, h |-> 40 ] }

\* Scales the wheel is turned toward, beyond both ends of the extent too.
WheelScales == { 50, 1000, 20000 }

\* The snapshot on screen: c1 with its two members, or c1 alone.
InitFit ==
  \E v \in { "A", "B" }, mems \in { DragMembers, << >> } :
    InitView(v, DragClusters, mems, 50)

NextFit ==
  \/ FirstFrame
  \/ \E cv \in ContainerSizes : ContainerResize(cv)
  \/ MouseMove(<< 0, 0 >>)
  \/ \E kNew \in WheelScales : Wheel(kNew)
  \/ MouseDownPan(FALSE)
  \/ MouseUpPan
  \/ \E v \in SliderValues : SliderInput(v)
  \/ DebounceFire

SpecFit == InitFit /\ [][NextFit]_vars

----------------------------------------------------------------------------
(* Specification of render()'s outcomes: no group, an empty snapshot, a view *)

\* No cluster group; or a group whose snapshot is empty, or holds c1 and its
\* two members.
InitEmpty ==
  \E v \in { "A", "B" } :
    \/ InitPlaceholder(v)
    \/ InitView(v, << >>, << >>, 50)
    \/ InitView(v, DragClusters, DragMembers, 50)

\* The view has a canvas only when a group was found.  The first frame's fit
\* of an empty node list is left out.
NextEmpty ==
  \/ cluster_group /\ nodes # << >> /\ FirstFrame
  \/ cluster_group /\ \E D \in SUBSET (DOMAIN nodes) : Tick(D)
  \/ PinClick
  \/ \E v \in SliderValues : SliderInput(v)
  \/ DebounceFire

SpecEmpty == InitEmpty /\ [][NextEmpty]_vars

----------------------------------------------------------------------------
(* Specification of the simulation's energy: pre-run, reheats, decay *)

\* opts.max_alpha_iterations is unset, or a number.
InitRest ==
  \E option \in { NoThreshold, 1, 2, 100 } :
    InitPreRun("B", RingClusters, RingMembers, 50, option)

NextRest ==
  \/ PreRunTick
  \/ PreRunDone
  \/ ~inPreRun /\ FirstFrame
  \/ ~inPreRun /\ Tick({})
  \/ PinClick
  \/ \E w \in NodePoints \cup { << 0, 0 >> } : MouseMove(w)
  \/ \E shiftKey \in BOOLEAN : MouseDownDrag(shiftKey)
  \/ \E j \in { -1, 1 } : DragMove(j)
  \/ MouseUpDrag
  \/ SliderInput(100)
  \/ DebounceFire

\* The loop is synchronous code, and d3's timer ticks on every frame while
\* the simulation runs.
SpecRest ==
  /\ InitRest /\ [][NextRest]_vars
  /\ WF_vars(PreRunTick) /\ WF_vars(PreRunDone) /\ WF_vars(~inPreRun /\ Tick({}))

----------------------------------------------------------------------------
(* Properties of selection and of the toolbar *)

\* p lies in the closed rectangle spanned by a and b.
withinRect(p, a, b) ==
  /\ (p[1] - a[1]) * (p[1] - b[1]) <= 0
  /\ (p[2] - a[2]) * (p[2] - b[2]) <= 0

\* The nodes inside the rectangle from the box-select's anchor to the point
\* where the button was released.
releasedOver ==
  { i \in DOMAIN nodes :
      withinRect(pos[i], selectionStart, invert(transform, pointer)) }

\* C1: a box-select released without the modifier leaves exactly the nodes
\* inside the rectangle from the anchor to the release point (bounds
\* inclusive) selected; released with the modifier it leaves the union of the
\* previous selection and those nodes.
C1_BoxSelect ==
  lastOp = "boxend" =>
    IF hist.shift THEN selectedNodes = hist.sel \cup releasedOver
    ELSE selectedNodes = releasedOver

\* A release with the modifier held that added nodes to a selection it kept,
\* one of them lying exactly on the rectangle's border.
C1_Witness ==
  /\ lastOp = "boxend"
  /\ hist.shift
  /\ hist.sel # {}
  /\ ~ (hist.sel \subseteq releasedOver)
  /\ ~ (releasedOver \subseteq hist.sel)
  /\ \E i \in releasedOver : pos[i][1] = selectionStart[1] \/ pos[i][2] = selectionStart[2]
                              \/ pos[i] = invert(transform, pointer)

\* C2: a click without the modifier leaves exactly the clicked node selected,
\* or nothing when no node is under the pointer; a click with the modifier
\* changes only the clicked node's membership, and flips it; for clicks on
\* cluster, center and member nodes alike.
C2_Click ==
  lastOp = "click" =>
    IF hist.shift
    THEN /\ \A n \in DOMAIN nodes :
              n # hist.node => (n \in selectedNodes <=> n \in hist.sel)
         /\ hist.node # 0 => (hist.node \in selectedNodes <=> hist.node \notin hist.sel)
    ELSE selectedNodes = (IF hist.node = 0 THEN {} ELSE { hist.node })

\* A modifier-click on a selected center node, after a press and release on it
\* that was no drag, took it out of a selection whose other nodes stayed.
C2_Witness ==
  /\ lastOp = "click"
  /\ hist.prev = "dragend"
  /\ hist.shift
  /\ hist.node # 0
  /\ nodes[hist.node].type = "center"
  /\ hist.node \in hist.sel
  /\ hist.node \notin selectedNodes
  /\ selectedNodes # {}

\* The selection's composition by node type.
selectedOfType(type) == { n \in selectedNodes : nodes[n].type = type }

\* C10: the visible mutation buttons follow from the selection's composition:
\* none for an empty selection; only 'create cluster' for members only;
\* 'ungroup from cluster' and 'add to center' for member(s) plus exactly one
\* cluster; 'remove from center' and 'ungroup' for centers only; 'remove
\* cluster(s)' for clusters only.  The dispatcher exists in revision B.
C10_Toolbar ==
  variant = "B" =>
    LET m == selectedOfType("member")
        c == selectedOfType("cluster")
        k == selectedOfType("center")
    IN /\ selectedNodes = {} => toolbar = {}
       /\ (m # {} /\ c = {} /\ k = {}) => toolbar = { "createCluster" }
       /\ (m # {} /\ Cardinality(c) = 1 /\ k = {}) =>
            toolbar = { "removeFromCluster", "addToClusterCenter" }
       /\ (k # {} /\ m = {} /\ c = {}) =>
            toolbar = { "removeFromClusterCenter", "removeFromCluster" }
       /\ (c # {} /\ m = {} /\ k = {}) => toolbar = { "removeCluster" }

\* One cluster node and one member node are selected by a click.
C10_Witness ==
  /\ variant = "B"
  /\ lastOp = "click"
  /\ Cardinality(selectedOfType("member")) = 1
  /\ Cardinality(selectedOfType("cluster")) = 1
  /\ selectedOfType("center") = {}
  /\ toolbar = { "removeFromCluster", "addToClusterCenter" }

----------------------------------------------------------------------------
(* Properties of dragging and pinning *)

\* The moved set of the drag in progress: the whole selection when the dragged
\* node is selected, the dragged node alone otherwise.
movedSet == IF dragSubject \in selectedNodes THEN selectedNodes ELSE { dragSubject }

\* How far the pointer is, in world space, from where the drag started.
dragDelta == Sub(invert(transform, pointer), dragStartPos)

\* C3: every drag event gives each node of the moved set the target (its
\* position at drag start) + (pointer world position - pointer world position at
\* drag start) and repositions no other node; the next tick puts each moved
\* node on its target, so all of them translate by the same delta.
C3_DragMovesSet ==
  [][ /\ lastOp' = "drag" =>
           /\ \A n \in movedSet' : fx'[n] = Add(hist'.target[n], dragDelta')
           /\ \A n \in (DOMAIN nodes) \ movedSet' : fx'[n] = fx[n]
           /\ pos' = pos
      /\ (lastOp = "drag" /\ lastOp' = "tick") =>
           \A n \in movedSet : nodes[n].type = "center"
                               \/ pos'[n] = Add(hist.target[n], dragDelta)
    ]_vars

\* At scale 1 three selected nodes are dragged by (10, 20): each has its start
\* position plus (10, 20) as its target.
C3_Witness ==
  /\ lastOp = "drag"
  /\ transform.k = 1000
  /\ Cardinality(selectedNodes) = 3
  /\ dragSubject \in selectedNodes
  /\ dragDelta = StepVec
  /\ \A n \in selectedNodes : fx[n] = Add(hist.target[n], StepVec)

\* C4: a drag that ends while the layout is pinned leaves every node of the
\* moved set fixed at its start position plus the total drag delta, however
\* the simulation's ticks fall between the drag events; one that ends while
\* the layout is not pinned leaves fx and fy of every moved node cleared.
C4_DragEnd ==
  lastOp = "dragend" =>
    \A n \in hist.sel :
      IF pinned THEN fx[n] = hist.target[n] ELSE fx[n] = Null

\* The half of C4 about a layout that is not pinned.
C4_Released ==
  (lastOp = "dragend" /\ ~pinned) => \A n \in hist.sel : fx[n] = Null

\* A pinned drag that moved a node ended.
C4_Witness ==
  /\ lastOp = "dragend"
  /\ pinned
  /\ \E n \in hist.sel : hist.target[n] # pos[n]

\* C5: after the pin button is clicked to pin and clicked again to unpin, the
\* layout is not pinned, no cluster or member node has fx or fy set, and the
\* simulation's alpha is above 0.
C5_PinUnpin ==
  (lastOp = "pin" /\ ~pinned) =>
    /\ \A n \in DOMAIN nodes : nodes[n].type # "center" => fx[n] = Null
    /\ alpha > 0

\* The second of two pin clicks in a row.
C5_Witness ==
  /\ lastOp = "pin"
  /\ hist.prev = "pin"
  /\ ~pinned
  /\ alpha > 0
  /\ \A n \in DOMAIN nodes : fx[n] = Null

\* C6: while the layout is pinned a node's position changes only by a drag
\* delta applied to that node: no tick, hover, click or press and release
\* without movement changes a position.
C6_PinnedFrozen ==
  [][ (pinned /\ pinned') =>
        \A n \in DOMAIN nodes :
          pos'[n] # pos[n] =>
            /\ isDragging
            /\ n \in DOMAIN nodeStartPositions
            /\ pos'[n] = Add(nodeStartPositions[n], dragDelta)
    ]_vars

----------------------------------------------------------------------------
(* Properties of the render loop *)

\* Node n sits on its parent's ring, at its offset angle and distance.
onRing(n) ==
  LET parent == nodes[n].parent
      cs == cosSin(nodes[n].offsetAngle)
  IN /\ pos[n][1] = pos[parent][1] + (nodes[n].offsetDist * cs[1]) \div 1000
     /\ pos[n][2] = pos[parent][2] + (nodes[n].offsetDist * cs[2]) \div 1000

\* C7: in every rendered frame each center node is at parent + offsetDist *
\* (cos, sin)(offsetAngle) and its fx, fy equal that position, through ticks,
\* drags, pin and unpin, zooms and relinks; the nodes' offsets, like the rest
\* of the node list, never change after the build.
C7_CentersOnRing ==
  /\ [](rendered =>
          \A n \in DOMAIN nodes :
            nodes[n].type = "center" => onRing(n) /\ fx[n] = pos[n])
  /\ [][nodes' = nodes]_vars

\* A frame drawn by a tick while a center node is being dragged away from a
\* parent that has itself moved: the center is back on the ring.
C7_Witness ==
  /\ rendered
  /\ lastOp = "tick"
  /\ isDragging
  /\ nodes[dragSubject].type = "center"
  /\ dragDelta # << 0, 0 >>
  /\ pos[nodes[dragSubject].parent] # HomePoints[nodes[dragSubject].parent]
  /\ onRing(dragSubject)

----------------------------------------------------------------------------
(* Properties of the builder and of relinking *)

\* A link list as a set of (cluster key, member key) pairs.
linkPairs(ls) == { << ls[i].source, ls[i].target >> : i \in DOMAIN ls }

\* C8: for thresholds t1 < t2 the links of a relink at t2 are a subset of the
\* links of a relink at t1, compared by (cluster key, member key).  Stated on
\* the links a relink has just installed for the slider's value, against a
\* relink of the same snapshot at every other slider value.
C8_RelinkMonotone ==
  lastOp = "relink" =>
    \A t \in SliderValues :
      /\ t < sliderValue =>
           linkPairs(links) \subseteq linkPairs(updateLinks(members, t, node_map))
      /\ t > sliderValue =>
           linkPairs(updateLinks(members, t, node_map)) \subseteq linkPairs(links)

\* A relink at 0.5 kept some links and dropped others that a relink at 0 keeps.
C8_Witness ==
  /\ lastOp = "relink"
  /\ sliderValue = 50
  /\ links # << >>
  /\ linkPairs(links) # linkPairs(updateLinks(members, 0, node_map))
  /\ linkPairs(updateLinks(members, 100, node_map)) # linkPairs(links)

\* The (cluster key, member key) pairs of the snapshot that score at least t
\* and whose cluster has a node.
pairsAtLeast(t) ==
  { << members[i].clusters[j].id, memberKey(members[i]) >> :
      << i, j >> \in { q \in (DOMAIN members) \X (1 .. 2) :
                         /\ q[2] \in DOMAIN members[q[1]].clusters
                         /\ members[q[1]].clusters[q[2]].score >= t
                         /\ \E n \in DOMAIN nodes :
                              /\ nodes[n].type = "cluster"
                              /\ nodes[n].id = members[q[1]].clusters[q[2]].id } }

\* The threshold the build is given: the persisted setting, or the default
\* when none is persisted.
givenThreshold ==
  IF settingsThreshold = NoThreshold THEN BuildDefaultThreshold
  ELSE settingsThreshold

\* C9: the build emits exactly one link for each (member, cluster) pair whose
\* score is at least the threshold and whose cluster has a node, and no other
\* link.
C9_BuildLinks ==
  lastOp = "render" =>
    /\ linkPairs(links) = pairsAtLeast(givenThreshold)
    /\ Len(links) = Cardinality(pairsAtLeast(givenThreshold))

\* The build of the example: one cluster without centers, three members
\* scored 0.3, 0.6 and 0.9, threshold 0.5.
C9_Witness ==
  /\ lastOp = "render"
  /\ settingsThreshold = 50
  /\ Len(clusters) = 1 /\ clusters[1].centers = << >>
  /\ Len(members) = 3
  /\ \A i \in 1 .. 3 : Len(members[i].clusters) = 1 /\ members[i].clusters[1].id = "c1"
  /\ { members[i].clusters[1].score : i \in 1 .. 3 } = { 30, 60, 90 }
  /\ Len(links) = 2
  /\ Len(nodes) = 4

----------------------------------------------------------------------------
(* Properties of the toolbar actions *)

\* The external operation an action starts with.
firstOp(button) ==
  CASE button = "createCluster" -> "create_or_update"
    [] button = "addToClusterCenter" -> "add_centers"
    [] button = "removeFromClusterCenter" -> "remove_centers"
    [] button = "removeCluster" -> "remove_clusters"
    [] OTHER -> "remove_members"

\* What the selection gives an action to send: the clusters of the selected
\* nodes for 'Remove cluster', else the items (keys) of the selected nodes that
\* carry one.
payloadOf(button, sel) ==
  IF button = "removeCluster" THEN { nodes[i].cluster : i \in sel }
  ELSE { nodes[i].id : i \in { j \in sel : nodes[j].type # "cluster" } }

clusterKeys == { clusters[i].key : i \in DOMAIN clusters }
definedTarget(call) ==
  IF call.op \in { "add_centers", "remove_centers", "remove_members" }
  THEN call.target \in clusterKeys
  ELSE call.target \in { "clusters", "cluster_group" }

\* C11: an action the dispatcher shows, when invoked, issues its external
\* mutation call with a defined target cluster and the items of the selected
\* nodes and does not fail locally before the call; 'ungroup' on a selection
\* of centers only issues remove_members on a cluster.
C11_ActionIssuesCall ==
  (variant = "B" /\ lastOp = "toolbar") =>
    /\ ~hist.out.threw
    /\ Len(hist.out.issued) = 1
    /\ hist.out.issued[1].op = firstOp(hist.out.action)
    /\ definedTarget(hist.out.issued[1])
    /\ hist.out.issued[1].items = payloadOf(hist.out.action, selectedNodes)

\* 'Ungroup' was invoked on a selection of center nodes only.
C11_Witness ==
  /\ variant = "B" /\ lastOp = "toolbar"
  /\ hist.out.action = "removeFromCluster"
  /\ selectedNodes # {}
  /\ \A i \in selectedNodes : nodes[i].type = "center"

\* The step is one of a toolbar action's handler: its click, or the settling
\* of a call it awaits.
toolbarStep == lastOp' \in { "toolbar", "resolve", "reject" }

\* A handler ended in this step with its last call resolved.
completed == lastOp' = "resolve" /\ Len(tasks') < Len(tasks)

\* C12: a toolbar action requests the re-render (view.render_view) once, in
\* the step in which the last of its external calls resolved and in no other;
\* no step of the handler changes the nodes, the links or the selection.
C12_RenderAfterCalls ==
  [][ toolbarStep =>
        /\ nodes' = nodes /\ links' = links /\ selectedNodes' = selectedNodes
        /\ IF completed
           THEN rendering' = rendering + 1 /\ hist'.out.render
           ELSE rendering' = rendering /\ ~hist'.out.render ]_vars

\* 'Create cluster' has had both of its calls resolved and asked for the
\* re-render, while nodes are selected.
C12_Witness ==
  /\ lastOp = "resolve" /\ hist.out.action = "createCluster"
  /\ hist.out.render /\ rendering = 1 /\ selectedNodes # {}

\* C13: when an external call of a toolbar action rejects, the selection, the
\* nodes, the links, the pin state and the viewport are left as they are, the
\* container keeps the view's fragment and no re-render is requested; the
\* steps of the handler before the rejection left them alone as well.
C13_RejectKeepsView ==
  [][ (toolbarStep /\ ~completed) =>
        /\ selectedNodes' = selectedNodes /\ nodes' = nodes /\ links' = links
        /\ pinned' = pinned /\ transform' = transform /\ pos' = pos /\ fx' = fx
        /\ toolbar' = toolbar
        /\ container' = container /\ rendering' = rendering
        /\ ~hist'.out.render ]_vars

\* The second call of 'Create cluster' (add_cluster) was rejected, with nodes
\* selected; the view's fragment is still in place.
C13_Witness ==
  /\ lastOp = "reject" /\ hist.out.action = "createCluster"
  /\ selectedNodes # {} /\ attached /\ rendering = 0
  /\ tasks = << >>

----------------------------------------------------------------------------
(* Properties of render_view() *)

C15_OneInFlight == Len(tasks) <= 1

\* A toolbar command was invoked and awaits its call, with the buttons still
\* on screen.
C15_Witness ==
  lastOp = "toolbar" /\ Len(tasks) = 1 /\ attached /\ toolbar # {}

----------------------------------------------------------------------------
(* Properties of the picker and of the pointer-down dispatch *)

isCenter(n) == n # 0 /\ nodes[n].type = "center"

\* The world point under the pointer.
pointerWorld == invert(transform, pointer)

\* C16: while the zoom scale is below the expansion threshold 3.0 the picker
\* returns no center node for any point, a point exactly on a center node
\* included; so the hover, the clicked node, the drag subject and the node
\* the zoom filter finds are never a center node then.
C16_NoCenterBelowThreshold ==
  transform.k < ExpandThreshold =>
    /\ \A w \in PickPoints \cup { pos[i] : i \in DOMAIN pos } :
         ~isCenter(findNodeAt(w, nodes, pos, transform.k))
    /\ (lastOp = "mousemove" /\ ~isSelecting) => ~isCenter(hoveredNode)
    /\ lastOp \in { "click", "dragstart" } => ~isCenter(hist.node)
    /\ ~isCenter(dragSubjectAt(pointer))

\* Below the threshold the pointer was moved exactly onto a center node and
\* the hover went to the cluster around it.
C16_Witness ==
  /\ framed /\ transform.k < ExpandThreshold /\ lastOp = "mousemove"
  /\ \E i \in DOMAIN nodes :
       /\ nodes[i].type = "center" /\ pos[i] = pointerWorld
       /\ hoveredNode = nodes[i].parent

\* The pickable nodes whose circle, border included, holds the point w.
containing(w) ==
  { i \in DOMAIN nodes :
      /\ nodes[i].type # "center" \/ transform.k >= ExpandThreshold
      /\ (w[1] - pos[i][1]) * (w[1] - pos[i][1])
           + (w[2] - pos[i][2]) * (w[2] - pos[i][2])
         <= nodes[i].radius * nodes[i].radius }

lastOf(S) == IF S = {} THEN 0 ELSE CHOOSE i \in S : \A j \in S : j <= i

\* C17: the picker returns the last-inserted pickable node whose centre is
\* within its radius of the point, the border counting as inside, and returns
\* none exactly when no pickable node holds the point.
C17_PickLastContaining ==
  /\ \A w \in PickPoints : findNodeAt(w, nodes, pos, transform.k) = lastOf(containing(w))
  /\ (lastOp = "mousemove" /\ ~isSelecting) => hoveredNode = lastOf(containing(pointerWorld))

\* The pointer is on the border of the hovered node, and an earlier node
\* holds the point too.
C17_Witness ==
  /\ lastOp = "mousemove" /\ ~isSelecting /\ hoveredNode # 0
  /\ Cardinality(containing(pointerWorld)) >= 2
  /\ (pointerWorld[1] - pos[hoveredNode][1]) * (pointerWorld[1] - pos[hoveredNode][1])
       + (pointerWorld[2] - pos[hoveredNode][2]) * (pointerWorld[2] - pos[hoveredNode][2])
     = nodes[hoveredNode].radius * nodes[hoveredNode].radius

----------------------------------------------------------------------------
(* Properties of the viewport *)

\* C19: after any sequence of zoom and pan gestures and of fits to content
\* the viewport's scale k lies within [0.1, 10].
C19_ScaleInRange == transform.k \in ScaleMin .. ScaleMax

\* A fit to content has just installed a scale below the extent.
C19_Witness ==
  /\ framed /\ lastOp \in { "firstframe", "relink" }
  /\ transform = centerNetwork(pos, canvas)
  /\ transform.k < ScaleMin

\* C20: the fit to content runs with the first frame, once the initial
\* layout is there, and again with every resize of the canvas's container.
C20_FitAfterResize ==
  [][/\ lastOp' = "firstframe" =>
          canvas' = containerSize /\ transform' = centerNetwork(pos', canvas')
     /\ (framed /\ containerSize' # containerSize) =>
          canvas' = containerSize' /\ transform' = centerNetwork(pos', canvas')]_vars

\* After the first frame the container was resized, and the canvas kept the
\* size and the transform it had.
C20_Witness ==
  /\ framed /\ lastOp = "resize"
  /\ canvas # containerSize

----------------------------------------------------------------------------
(* Properties of the fit to content *)

\* This step ran centerNetwork(): with the first frame or with a relink.
fits == lastOp' \in { "firstframe", "relink" }

\* The positions centerNetwork() read in this step: the first frame redraws
\* before the fit, a relink fits before its redraw.
fitSaw == IF lastOp' = "firstframe" THEN pos' ELSE pos

bboxMinX == minOf({ fitSaw[i][1] : i \in DOMAIN fitSaw })
bboxMaxX == maxOf({ fitSaw[i][1] : i \in DOMAIN fitSaw })
bboxMinY == minOf({ fitSaw[i][2] : i \in DOMAIN fitSaw })
bboxMaxY == maxOf({ fitSaw[i][2] : i \in DOMAIN fitSaw })
bboxWidth == bboxMaxX - bboxMinX
bboxHeight == bboxMaxY - bboxMinY

C22_DegenerateFitCenters ==
  [][(fits /\ bboxWidth = 0 /\ bboxHeight = 0) =>
       /\ transform'.k = 1000
       /\ applyTransform(transform', << bboxMinX, bboxMinY >>)
            = << 5000 * canvas'.w, 5000 * canvas'.h >>]_vars

\* The lone node of a snapshot was fitted: scale 1, and the world origin, not
\* the node, is at the centre of the canvas.
C22_Witness ==
  /\ lastOp = "firstframe" /\ Len(nodes) = 1
  /\ transform = [ x |-> 5000 * canvas.w, y |-> 5000 * canvas.h, k |-> 1000 ]
  /\ pos[1] # << 0, 0 >>

----------------------------------------------------------------------------
(* Properties of render()'s empty state *)

\* C23: when no cluster group exists, or the snapshot's cluster list is
\* empty, render() returns a static placeholder fragment and starts no force
\* simulation.
C23_EmptyState ==
  (lastOp = "render" /\ (~cluster_group \/ clusters = << >>)) =>
    /\ container = << "placeholder" >>
    /\ ~running
    /\ nodes = << >>

\* A group whose snapshot has no clusters was rendered: the full view is
\* attached and its simulation runs.
C23_Witness ==
  /\ lastOp = "render" /\ cluster_group /\ clusters = << >>
  /\ attached /\ running

----------------------------------------------------------------------------
(* Properties of the builder's nodes and links *)

hasNode(id) == \E n \in DOMAIN nodes : nodes[n].id = id

\* The snapshot's members with the stale entries of their clusters maps (ids
\* that no node carries) taken out.
withoutStale ==
  [ i \in DOMAIN members |->
      [ members[i] EXCEPT !.clusters =
          SelectSeq(members[i].clusters, LAMBDA e : hasNode(e.id)) ] ]

staleEntries ==
  { << i, j >> \in (DOMAIN members) \X (1 .. 2) :
      j \in DOMAIN members[i].clusters /\ ~hasNode(members[i].clusters[j].id) }

\* C24: a member's entry for a cluster id that no node carries yields no
\* link, and neither the build nor a relink fails on it (d3.forceLink finds a
\* node for both ends of every link): the nodes and links are those of the
\* same snapshot with the stale entries taken out.
C24_StaleSkipped ==
  /\ \A l \in DOMAIN links : hasNode(links[l].source) /\ hasNode(links[l].target)
  /\ lastOp = "render" =>
       LET g == render(variant, clusters, withoutStale, settingsThreshold)
       IN nodes = g.nodes /\ node_map = g.node_map /\ links = g.links
  /\ lastOp = "relink" => links = updateLinks(withoutStale, sliderValue, node_map)

\* A relink of a snapshot in which a member has a stale entry and a live one:
\* the live one is linked.
C24_Witness ==
  /\ lastOp = "relink"
  /\ \E q \in staleEntries :
       \E l \in DOMAIN links : links[l].target = memberKey(members[q[1]])

\* C25: the node list holds no two nodes with the same id, across cluster,
\* center and member nodes.
C25_UniqueIds ==
  \A i, j \in DOMAIN nodes : nodes[i].id = nodes[j].id => i = j

\* A member that is a center of a cluster was built: the center node and a
\* member node carry its key.
C25_Witness ==
  \E i, j \in DOMAIN nodes :
    /\ nodes[i].type = "center" /\ nodes[j].type = "member"
    /\ nodes[i].id = nodes[j].id

memberKeys == { memberKey(members[i]) : i \in DOMAIN members }
nodesOf(type, id) == { n \in DOMAIN nodes : nodes[n].type = type /\ nodes[n].id = id }

\* C26: a snapshot member gets a member node if and only if its key is not
\* the key of a cluster node or of a center node, and then exactly one.
C26_MemberNodes ==
  /\ \A k \in memberKeys :
       Cardinality(nodesOf("member", k)) =
         IF nodesOf("cluster", k) \cup nodesOf("center", k) = {} THEN 1 ELSE 0
  /\ \A n \in DOMAIN nodes : nodes[n].type = "member" => nodes[n].id \in memberKeys

\* Revision A built a member node for a key that a center node has.
C26_Witness ==
  /\ variant = "A"
  /\ \E k \in memberKeys : nodesOf("center", k) # {} /\ nodesOf("member", k) # {}

\* The node d3.forceLink resolves an id to: the last node that carries it.
nodeById(id) ==
  LET S == { n \in DOMAIN nodes : nodes[n].id = id }
  IN CHOOSE n \in S : \A m \in S : m <= n

\* C27: after the build and after every relink each link has a cluster node
\* as its source and a member node as its target.
C27_LinksClusterToMember ==
  \A l \in DOMAIN links :
    /\ hasNode(links[l].source) /\ hasNode(links[l].target)
    /\ nodes[nodeById(links[l].source)].type = "cluster"
    /\ nodes[nodeById(links[l].target)].type = "member"

\* Revision B linked a cluster to a member that is one of its centers: the
\* link ends in the center node.
C27_Witness ==
  /\ variant = "B"
  /\ \E l \in DOMAIN links :
       /\ nodesOf("member", links[l].target) = {}
       /\ nodesOf("center", links[l].target) # {}

----------------------------------------------------------------------------
(* Properties of the relink *)

\* C28 as stated: a relink after a threshold change replaces the links and
\* leaves the node list, every node's position and fx/fy, the pinned flag and
\* the selection as they were; so on a pinned layout at rest the ticks of the
\* simulation the relink restarts move no node.
C28_RelinkKeepsNodes ==
  [][/\ lastOp' = "relink" =>
          /\ links' = updateLinks(members, sliderValue, node_map)
          /\ nodes' = nodes /\ node_map' = node_map
          /\ pos' = pos /\ fx' = fx
          /\ pinned' = pinned /\ selectedNodes' = selectedNodes
     /\ (lastOp = "relink" /\ lastOp' = "tick" /\ pinned /\ gesture = "none") =>
          pos' = pos]_vars

\* C28, amended: as above for the node list, the positions, the pinned flag,
\* the selection and the fx/fy of every cluster and member node; the redraw
\* that ends the relink fixes each center node at its place on the ring,
\* where it is, whether or not it was fixed before.
C28_RelinkKeepsPins ==
  [][/\ lastOp' = "relink" =>
          /\ links' = updateLinks(members, sliderValue, node_map)
          /\ nodes' = nodes /\ node_map' = node_map
          /\ pos' = pos
          /\ \A i \in DOMAIN nodes :
               fx'[i] = IF nodes[i].type = "center" THEN pos[i] ELSE fx[i]
          /\ pinned' = pinned /\ selectedNodes' = selectedNodes
     /\ (lastOp = "relink" /\ lastOp' = "tick" /\ pinned /\ gesture = "none") =>
          pos' = pos]_vars

\* The relink of a pinned layout with a selection dropped the links; the
\* nodes are fixed where they are.
C28_Witness ==
  /\ lastOp = "relink" /\ pinned /\ selectedNodes # {}
  /\ links = << >> /\ running
  /\ \A i \in DOMAIN nodes : fx[i] = pos[i]

\* C29: the slider's input is debounced.  An input event relinks nothing and
\* (re)arms the one timer; the relink runs when the timer fires, once for all
\* the input events since the timer was idle, with the slider's value of the
\* last of them, and leaves no timer behind.  (The model has no clock: the
\* events of a burst are those that arrive while the timer is pending.)
C29_Debounced ==
  [][/\ lastOp' = "input" =>
          /\ links' = links /\ debounce'
          /\ sliderValue' # sliderValue
     /\ lastOp' = "relink" =>
          /\ debounce /\ ~debounce'
          /\ sliderValue' = sliderValue
          /\ links' = updateLinks(members, sliderValue, node_map)
     /\ links' # links => lastOp' = "relink"]_vars

\* The timer fired after a burst of two or more input events, whose last
\* value differs from the one before it: one relink, at the last value.
C29_Witness ==
  /\ lastOp = "relink" /\ hist.prev = "input" /\ ~debounce
  /\ links = updateLinks(members, sliderValue, node_map)
  /\ \E t \in SliderValues :
       t # sliderValue /\ updateLinks(members, t, node_map) # links

----------------------------------------------------------------------------
(* Properties of the selection and drag controller *)

\* C30: the controller is in exactly one of idle, box-selecting, dragging:
\* isSelecting and isDragging are never both true, and the drag's bookkeeping
\* (dragStartPos, nodeStartPositions) is empty whenever it is not dragging.
C30_OneControllerState ==
  /\ ~(isSelecting /\ isDragging)
  /\ ~isDragging => dragStartPos = Null /\ nodeStartPositions = << >>

\* A drag began while the box-select of an earlier press, released outside
\* the canvas, was still on.
C30_Witness ==
  /\ lastOp = "dragstart" /\ gesture = "drag"
  /\ isSelecting /\ isDragging

----------------------------------------------------------------------------
(* The simulation's energy *)

\* The simulation has energy to move: its timer runs and alpha or alphaTarget
\* is above 0.
hasEnergy == running /\ (alpha > 0 \/ alphaTarget > 0)

atRest == ~running /\ belowAlphaMin(alpha)

reheats ==
  /\ lastOp = "dragstart" => hasEnergy /\ alphaTarget > 0
  /\ lastOp = "pin" /\ ~pinned => hasEnergy /\ alpha > 0
  /\ lastOp = "relink" => hasEnergy /\ alpha > 0

dragEndResets ==
  /\ lastOp = "dragend" => alphaTarget = 0
  /\ ~isDragging => alphaTarget = 0

\* From some point on no drag is in progress and nothing but the timer acts.
noFurtherInput == <>[](~isDragging) /\ <>[][lastOp' = "tick"]_vars

\* C31: drag start, unpin and relink each leave the simulation with energy;
\* every drag end puts alphaTarget back to 0, so alphaTarget is 0 whenever no
\* drag is in progress; and once no further input arrives the simulation
\* comes to rest and stays there.
C31_ReheatsAndRests ==
  /\ [](reheats /\ dragEndResets)
  /\ noFurtherInput => <>[]atRest

\* A relink reheated the simulation and it has since come to rest.
C31_Witness ==
  lastOp = "tick" /\ atRest /\ sliderValue = 100 /\ ~debounce /\ ~pinned

----------------------------------------------------------------------------
(* The pre-run loop *)

preRunBounded ==
  /\ iterations <= max_iter
  /\ lastOp = "prerun" => iterations >= 1

\* The state right after the loop and the call that follows it.
preRunEnd ==
  lastOp = "render" =>
    /\ iterations = max_iter \/ ~(alpha > AlphaAfterPreRun)
    /\ alphaTarget = 0
    /\ running

\* C32: the pre-run loop terminates after at most max_iter ticks; it ends
\* before max_iter ticks only when alpha is no longer above 0.1; after it the
\* simulation runs on its timer with alphaTarget 0.
C32_PreRunTerminates ==
  /\ [](preRunBounded /\ preRunEnd)
  /\ <>(~inPreRun)

\* The loop ended on its bound, with alpha still above 0.1.
C32_Witness ==
  lastOp = "render" /\ iterations = max_iter /\ alpha > AlphaAfterPreRun

----------------------------------------------------------------------------
(* The click that follows a box-select *)

\* C33: the click delivered right after the mouseup that ends a box-select
\* leaves the selection what the box-select made it, with the modifier held
\* or released.
C33_ClickKeepsBoxSelection ==
  [][lastOp = "boxend" /\ lastOp' = "click" => selectedNodes' = selectedNodes]_vars

\* A click right after a box-select that selected nodes, and a selection that
\* is no longer the box-select's.
C33_Witness ==
  /\ lastOp = "click"
  /\ hist.prev = "boxend"
  /\ hist.sel # {}
  /\ selectedNodes # hist.sel

----------------------------------------------------------------------------
(* The toolbar's member-plus-cluster rule *)

\* The toolbar shows 'ungroup from cluster' and 'add to center', and the
\* selection satisfies the member-plus-cluster rule.
shownByMemberPlusCluster ==
  /\ variant = "B"
  /\ { "removeFromCluster", "addToClusterCenter" } \subseteq toolbar
  /\ memberPlusCluster(countType(nodes, selectedNodes, "member"),
                       countType(nodes, selectedNodes, "cluster"),
                       countType(nodes, selectedNodes, "center"))

\* C34: whenever 'ungroup from cluster' and 'add to center' are shown through
\* the member-plus-cluster rule, the selection is exactly one cluster node
\* and one or more member nodes, and holds no center node.
C34_MemberPlusClusterSelection ==
  shownByMemberPlusCluster =>
    /\ countType(nodes, selectedNodes, "cluster") = 1
    /\ countType(nodes, selectedNodes, "member") >= 1
    /\ countType(nodes, selectedNodes, "center") = 0

\* Both buttons are shown for a selection of a member, a cluster and a center.
C34_Witness ==
  /\ shownByMemberPlusCluster
  /\ toolbar = updateToolbarUI(variant, nodes, selectedNodes)
  /\ countType(nodes, selectedNodes, "center") >= 1

----------------------------------------------------------------------------
(* 'Remove from center' and the parents of the selected centers *)

\* The centers among the nodes that were selected when the button was clicked.
selectedCenters == { i \in hist.sel : nodes[i].type = "center" }

removeFromCenterInvoked ==
  lastOp = "toolbar" /\ hist.out.action = "removeFromClusterCenter"

\* C35: whenever 'remove from center' is invoked, the selected center nodes
\* all have the same parent cluster, and the remove_centers call it makes is
\* made on the parent cluster of every one of them.
C35_CentersShareParent ==
  removeFromCenterInvoked =>
    /\ \A i, j \in selectedCenters : nodes[i].parent = nodes[j].parent
    /\ \A c \in DOMAIN hist.out.issued : \A i \in selectedCenters :
         hist.out.issued[c].op = "remove_centers"
         /\ hist.out.issued[c].target = nodeCluster(nodes[nodes[i].parent])

\* The button was clicked with centers of two clusters selected, and one
\* remove_centers call was made.
C35_Witness ==
  /\ removeFromCenterInvoked
  /\ Len(hist.out.issued) = 1
  /\ \E i, j \in selectedCenters : nodes[i].parent # nodes[j].parent

----------------------------------------------------------------------------
(* Relinking has no memory *)

\* The links render() builds from the snapshot.
builtLinks == render(variant, clusters, members, settingsThreshold).links

\* The links a relink has installed are those of the snapshot at the slider's
\* value, whatever the links before it were.
relinkIsFunction ==
  lastOp = "relink" =>
    linkPairs(links) = linkPairs(updateLinks(members, sliderValue, node_map))

\* The slider was moved away and back to the value it showed after the build,
\* and the relink ran: the links are the links of the build.
relinkBackRestores ==
  lastOp = "relink" /\ sliderValue = initialSliderValue(settingsThreshold) =>
    linkPairs(links) = linkPairs(builtLinks)

\* C36: after any sequence of relinks the link set depends only on the
\* snapshot and the threshold of the last relink; moving the threshold away
\* and back gives the link set of never having moved it.
C36_NoHysteresis == relinkIsFunction /\ relinkBackRestores

\* A relink back at the slider's first value, and links that are not those of
\* the build.
C36_Witness ==
  /\ lastOp = "relink"
  /\ sliderValue = initialSliderValue(settingsThreshold)
  /\ linkPairs(links) # linkPairs(builtLinks)

----------------------------------------------------------------------------
(* The build's threshold and the slider's first value *)

\* C39: right after the build the link set is the one a relink at the
\* slider's displayed value would install, for every persisted threshold
\* setting, an unset one and 0 included.
C39_BuildMatchesSlider ==
  lastOp = "render" =>
    /\ sliderValue = initialSliderValue(settingsThreshold)
    /\ linkPairs(links) = linkPairs(updateLinks(members, sliderValue, node_map))

\* A build with no threshold persisted whose links are not those of a relink
\* at the value the slider shows.
C39_Witness ==
  /\ lastOp = "render"
  /\ settingsThreshold = NoThreshold
  /\ sliderValue = SliderDefaultValue
  /\ linkPairs(links) # linkPairs(updateLinks(members, sliderValue, node_map))

----------------------------------------------------------------------------
(* The toolbar follows the selection *)

\* C37: after any sequence of clicks, modifier-clicks and box-selects the
\* buttons shown are the dispatcher's result for the current selection: the
\* toolbar is never stale.
C37_ToolbarFresh ==
  toolbar = IF variant = "A" THEN AllButtons ELSE visibleButtons(nodes, selectedNodes)

\* A box-select has just changed the selection, and buttons are shown for it.
C37_Witness ==
  /\ variant = "B"
  /\ lastOp = "boxend"
  /\ selectedNodes # hist.sel
  /\ toolbar # {}
  /\ toolbar = visibleButtons(nodes, selectedNodes)

----------------------------------------------------------------------------
(* Free nodes of an unpinned layout *)

\* C38: whenever the layout is not pinned and no drag is in progress, no
\* cluster or member node has fx, fy set, after any sequence of drags, group
\* drags, pin and unpin clicks, relinks and ticks.
C38_UnpinnedNodesFree ==
  ~pinned /\ ~isDragging =>
    \A n \in DOMAIN nodes : nodes[n].type # "center" => fx[n] = Null

\* A group drag of an unpinned layout has just ended, having moved a node
\* from where the pre-run left it.
C38_Witness ==
  /\ lastOp = "dragend"
  /\ ~pinned
  /\ Cardinality(hist.sel) >= 2
  /\ \E n \in hist.sel : pos[n] # HomePoints[n]
  /\ \A n \in DOMAIN nodes : fx[n] = Null

----------------------------------------------------------------------------
(* Overlapping render_view() calls *)

\* C40: when render_view() calls overlap, the view in the container once all
\* of them have completed is the one built by the most recently started call.
C40_LatestCallShown ==
  rendering = 0 /\ container = << "fragment" >> => latestCall = "shown"

\* No call is pending and the container holds the fragment of a call that was
\* started before the most recent one.
C40_Witness ==
  /\ lastOp = "render"
  /\ rendering = 0
  /\ container = << "fragment" >>
  /\ latestCall = "replaced"

====
